---- MODULE Spec2Model ----
(***************************************************************************)
(* Model of SharedFaceTracker (src/backend/server.py): the shared identity *)
(* registry, process_face, consolidate_duplicate_ids, cleanup_old_faces,   *)
(* _cleanup_pending and load_embeddings_from_db.                           *)
(*                                                                         *)
(* Numbers.  Embeddings are vectors of fixed-point numbers with unit Scale *)
(* (1000 stands for 1.0); the model keeps two components of the 512.       *)
(* Similarities are in the same unit (650 stands for 0.65).  Times are in  *)
(* tenths of a second (30 stands for 3.0 s); time.time() is read once per  *)
(* call, all reads inside one call return the same instant.                *)
(* Python's None, used as a dictionary key, is NoneId.                     *)
(***************************************************************************)
EXTENDS Integers, Sequences, FiniteSets, TLC

\* ---------------------------------------------------------------- bounds
MaxTicks == 2
MaxCalls == 3
MaxDeepCalls == 6
MaxCrossCalls == 5
MaxIdleCalls == 4
MaxFullCalls == 5
MaxWideCalls == 9
MaxFramePasses == 3
MaxLockCalls == 3
MaxFrames == 6
MaxStarts == 2
MaxRestartFrames == 1
\* The capacity of the registry in the runs that fill it (1000 in the source).
SmallCapacity == 2

\* ------------------------------------------------- configuration (__init__)
Scale == 1000
top_k == 1
threshold == 450
tracking_threshold == 500
rebuild_interval == 100
min_face_size == 24
face_timeout == 300
consolidation_threshold == 650
consolidation_check_interval == 20
reuse_distance_px == 120
reuse_time_window_s == 30
min_appearances_for_id == 3
pending_timeout_s == 30
similarity_reuse_threshold == 650
relink_duration_s == 30
relink_min_confidence == 350
immediate_merge_threshold == 800
immediate_merge_iou == 450
immediate_merge_time_window == 20
capacity == 1000
cell_size == 64

NoneId == 0 - 1

\* ------------------------------------------------------------ dictionaries
\* A dict whose iteration order the code relies on is a sequence of
\* <<key, value>> pairs in insertion order; the others are functions.
DKeys(d) == [i \in 1..Len(d) |-> d[i][1]]

DKeySet(d) == {d[i][1] : i \in 1..Len(d)}

DValues(d) == [i \in 1..Len(d) |-> d[i][2]]

DHas(d, k) == \E i \in 1..Len(d) : d[i][1] = k

DGet(d, k, default) ==
    IF DHas(d, k) THEN d[CHOOSE i \in 1..Len(d) : d[i][1] = k][2] ELSE default

DPut(d, k, v) ==
    IF DHas(d, k)
    THEN [i \in 1..Len(d) |-> IF d[i][1] = k THEN <<k, v>> ELSE d[i]]
    ELSE Append(d, <<k, v>>)

DPopTest(p, k) == p[1] # k

DPop(d, k) == SelectSeq(d, LAMBDA p : DPopTest(p, k))

Get(f, k, default) == IF k \in DOMAIN f THEN f[k] ELSE default

Put(f, k, v) == [x \in (DOMAIN f) \cup {k} |-> IF x = k THEN v ELSE f[x]]

Pop(f, k) == [x \in (DOMAIN f) \ {k} |-> f[x]]

EmptyDict == [x \in {} |-> 0]

\* --------------------------------------------------------------- numerics
\* An intermediate value that is used several times is bound over a
\* one-element set (CHOOSE r \in {e(x) : x \in {v}} : TRUE is e(v)), so that it
\* is computed once.
Abs(x) == IF x < 0 THEN 0 - x ELSE x

Max(a, b) == IF a >= b THEN a ELSE b

Min(a, b) == IF a <= b THEN a ELSE b

\* a / b rounded to the nearest integer (b > 0)
RDiv(a, b) == IF a >= 0 THEN (2 * a + b) \div (2 * b)
                        ELSE 0 - ((2 * (0 - a) + b) \div (2 * b))

\* int(x): a / b truncated toward zero (b > 0)
TruncDiv(a, b) == IF a >= 0 THEN a \div b ELSE 0 - ((0 - a) \div b)

RECURSIVE SqrtSearch(_, _, _)
SqrtSearch(n, lo, hi) ==
    IF lo >= hi THEN lo
    ELSE CHOOSE r \in {IF mid * mid <= n THEN SqrtSearch(n, mid, hi)
                                          ELSE SqrtSearch(n, lo, mid - 1) :
                          mid \in {(lo + hi + 1) \div 2}} : TRUE

\* floor of the square root
FloorSqrt(n) == SqrtSearch(n, 0, 46340)

\* the square root rounded to the nearest integer
Sqrt(n) == CHOOSE s \in {IF n - r * r > r THEN r + 1 ELSE r : r \in {FloorSqrt(n)}} : TRUE

Dot(a, b) == a[1] * b[1] + a[2] * b[2]

\* np.linalg.norm
Norm(v) == Sqrt(Dot(v, v))

\* v /= np.linalg.norm(v)
Normalize(v) ==
    CHOOSE u \in {<<RDiv(v[1] * Scale, norm), RDiv(v[2] * Scale, norm)>> :
                     norm \in {Norm(v)}} : TRUE

\* the inner product the FAISS IndexFlatIP reports
InnerProduct(a, b) == RDiv(Dot(a, b), Scale)

\* sklearn.metrics.pairwise.cosine_similarity of two rows
cosine_similarity(a, b) == RDiv(Dot(Normalize(a), Normalize(b)), Scale)

\* (1 - w) * a + w * b, not normalised.
BlendRaw(a, b, w) ==
    <<RDiv((Scale - w) * a[1] + w * b[1], Scale),
      RDiv((Scale - w) * a[2] + w * b[2], Scale)>>

\* normalize((1 - w) * a + w * b), w in units of 1/Scale
Blend(a, b, w) ==
    Normalize(<<RDiv((Scale - w) * a[1] + w * b[1], 100),
                RDiv((Scale - w) * a[2] + w * b[2], 100)>>)

\* SharedFaceTracker.iou, as the pair <<intersection, union>> of areas
IouParts(boxA, boxB) ==
    LET xA == Max(boxA[1], boxB[1])
        yA == Max(boxA[2], boxB[2])
        xB == Min(boxA[3], boxB[3])
        yB == Min(boxA[4], boxB[4])
        interArea == Max(0, xB - xA + 1) * Max(0, yB - yA + 1)
        boxAArea == (boxA[3] - boxA[1] + 1) * (boxA[4] - boxA[2] + 1)
        boxBArea == (boxB[3] - boxB[1] + 1) * (boxB[4] - boxB[2] + 1)
    IN  <<interArea, boxAArea + boxBArea - interArea>>

\* iou(boxA, boxB) > num / den
IouGreater(boxA, boxB, num, den) ==
    LET p == IouParts(boxA, boxB) IN p[1] * den > num * p[2]

\* iou(boxA, boxB) >= num / den
IouAtLeast(boxA, boxB, num, den) ==
    LET p == IouParts(boxA, boxB) IN p[1] * den >= num * p[2]

Center(bbox) == <<(bbox[1] + bbox[3]) \div 2, (bbox[2] + bbox[4]) \div 2>>

\* ((cx - lx) ** 2 + (cy - ly) ** 2) ** 0.5 <= reuse_distance_px
WithinReuseDistance(c, l) ==
    (c[1] - l[1]) * (c[1] - l[1]) + (c[2] - l[2]) * (c[2] - l[2])
        <= reuse_distance_px * reuse_distance_px

\* ------------------------------------------------------------------ state
VARIABLES
    index,                   \* FAISS IndexIDMap(IndexFlatIP): sequence of <<id, emb>>
    next_id,
    id2emb,                  \* ordered dict id -> canonical embedding
    id_checked_in_db,
    id_suspicious_status,
    suspicious_map,
    id2last_bbox,            \* ordered dict id -> bbox
    id2last_seen,            \* ordered dict id -> timestamp
    id2stream,
    pending_tracks,          \* <<stream, cell>> -> [count, first_ts, last_ts, emb, bbox]
    lifetime_ids,
    lifetime_suspicious_ids,
    relink_tracks,           \* id -> [start_ts, last_ts, best_sim]
    faces_since_rebuild,
    stored_embeddings,       \* the watchlist matrix, a sequence of rows
    stored_labels,           \* the watchlist metadata, a sequence of record ids
    now,                     \* time.time()
    calls,                   \* number of process_face calls made so far
    ticks,                   \* number of clock steps seen so far
    result,                  \* what the last operation did and returned
    lock,                    \* self.lock: "free" or the thread that holds it
    inflight,                \* thread -> the operation it has begun, or Idle
    stop_flag,               \* StreamProcessor.stop_flag.is_set()
    is_streaming,
    cap,                     \* the cv2.VideoCapture: "none" or "open"
    frame_queue,             \* capture -> process, a sequence of frame numbers
    output_queue,            \* process -> render, a sequence of frame numbers
    capture_thread,          \* start -> [pc, frame] of the thread running _capture_frames
    processing_thread,       \* start -> [pc, item, observed] of the thread running _process_frames
    request,                 \* the request thread inside start_stream or stop_stream
    grabbed,                 \* number of frames the source has delivered
    face_loop                \* the loop of _process_frames over the faces of a frame

tracker_vars == <<index, next_id, id2emb, id_checked_in_db, id_suspicious_status,
                  suspicious_map, id2last_bbox, id2last_seen, id2stream,
                  pending_tracks, lifetime_ids, lifetime_suspicious_ids,
                  relink_tracks, faces_since_rebuild, stored_embeddings,
                  stored_labels>>

\* What the tracker lock is meant to protect: everything but the watchlist.
registry_vars == <<index, next_id, id2emb, id_checked_in_db, id_suspicious_status,
                   suspicious_map, id2last_bbox, id2last_seen, id2stream,
                   pending_tracks, lifetime_ids, lifetime_suspicious_ids,
                   relink_tracks, faces_since_rebuild>>

\* One StreamProcessor, its two kinds of thread and its source.
stream_vars == <<stop_flag, is_streaming, cap, frame_queue, output_queue,
                 capture_thread, processing_thread, request, grabbed, face_loop>>

vars == <<tracker_vars, now, calls, ticks, result, lock, inflight, stream_vars>>

\* The processing threads of the two streams, and the request threads of the
\* maintenance endpoints and of the reload endpoint.
Threads == {"s1", "s2", "api", "reload"}

Idle == [op |-> "idle"]

\* The tracker object as one record, so that a method is an operator from the
\* object before the call to the object after it.  The record also carries
\* the capacity the two creation sites compare len(id2emb) with (the literal
\* 1000 of lines 300 and 368), so that a run can be made with a registry that
\* fills up.
Self == [index |-> index, next_id |-> next_id, id2emb |-> id2emb,
         id_checked_in_db |-> id_checked_in_db,
         id_suspicious_status |-> id_suspicious_status,
         suspicious_map |-> suspicious_map, id2last_bbox |-> id2last_bbox,
         id2last_seen |-> id2last_seen, id2stream |-> id2stream,
         pending_tracks |-> pending_tracks, lifetime_ids |-> lifetime_ids,
         lifetime_suspicious_ids |-> lifetime_suspicious_ids,
         relink_tracks |-> relink_tracks,
         faces_since_rebuild |-> faces_since_rebuild,
         stored_embeddings |-> stored_embeddings,
         stored_labels |-> stored_labels,
         capacity |-> capacity]

Commit(t) ==
    /\ index' = t.index
    /\ next_id' = t.next_id
    /\ id2emb' = t.id2emb
    /\ id_checked_in_db' = t.id_checked_in_db
    /\ id_suspicious_status' = t.id_suspicious_status
    /\ suspicious_map' = t.suspicious_map
    /\ id2last_bbox' = t.id2last_bbox
    /\ id2last_seen' = t.id2last_seen
    /\ id2stream' = t.id2stream
    /\ pending_tracks' = t.pending_tracks
    /\ lifetime_ids' = t.lifetime_ids
    /\ lifetime_suspicious_ids' = t.lifetime_suspicious_ids
    /\ relink_tracks' = t.relink_tracks
    /\ faces_since_rebuild' = t.faces_since_rebuild
    /\ stored_embeddings' = t.stored_embeddings
    /\ stored_labels' = t.stored_labels

\* ------------------------------------------------------------ vector index
\* index.remove_ids([id])
IndexRemoveTest(p, id) == p[1] # id

index_remove_ids(ix, id) == SelectSeq(ix, LAMBDA p : IndexRemoveTest(p, id))

\* index.add_with_ids(emb, [id])
index_add_with_ids(ix, emb, id) == Append(ix, <<id, emb>>)

\* index.search(q, k): the positions of the k entries of largest inner product
\* in decreasing order; entries of equal inner product come in any order.
RECURSIVE SearchOrders(_, _, _)
SearchOrders(ix, q, S) ==
    IF S = {} THEN {<<>>}
    ELSE LET best == CHOOSE i \in S :
                        \A j \in S : InnerProduct(q, ix[i][2]) >= InnerProduct(q, ix[j][2])
             tops == {i \in S : InnerProduct(q, ix[i][2]) = InnerProduct(q, ix[best][2])}
         IN  UNION {{<<i>> \o r : r \in SearchOrders(ix, q, S \ {i})} : i \in tops}

index_search(ix, q, k) ==
    {SubSeq(o, 1, k) : o \in SearchOrders(ix, q, 1..Len(ix))}

\* ------------------------------------------------------- _cleanup_pending
_cleanup_pending(t, now_ts) ==
    LET stale_keys == {key \in DOMAIN t.pending_tracks :
                          now_ts - t.pending_tracks[key].last_ts > pending_timeout_s}
        stale_ids == {rid \in DOMAIN t.relink_tracks :
                          now_ts - t.relink_tracks[rid].last_ts > pending_timeout_s}
    IN  [t EXCEPT
            !.pending_tracks = [key \in (DOMAIN t.pending_tracks) \ stale_keys |->
                                    t.pending_tracks[key]],
            !.relink_tracks = [rid \in (DOMAIN t.relink_tracks) \ stale_ids |->
                                    t.relink_tracks[rid]]]

\* A removal that forgets the vector index.
RemoveFaceKeepIndex(t, face_id) ==
    [t EXCEPT !.id2emb = DPop(t.id2emb, face_id),
              !.id_checked_in_db = Pop(t.id_checked_in_db, face_id),
              !.id_suspicious_status = Pop(t.id_suspicious_status, face_id),
              !.suspicious_map = Pop(t.suspicious_map, face_id),
              !.id2last_bbox = DPop(t.id2last_bbox, face_id),
              !.id2last_seen = DPop(t.id2last_seen, face_id),
              !.id2stream = Pop(t.id2stream, face_id)]

\* Remove one identity from the index and from every per-identity map.
RemoveFace(t, face_id) ==
    [t EXCEPT !.index = index_remove_ids(t.index, face_id),
              !.id2emb = DPop(t.id2emb, face_id),
              !.id_checked_in_db = Pop(t.id_checked_in_db, face_id),
              !.id_suspicious_status = Pop(t.id_suspicious_status, face_id),
              !.suspicious_map = Pop(t.suspicious_map, face_id),
              !.id2last_bbox = DPop(t.id2last_bbox, face_id),
              !.id2last_seen = DPop(t.id2last_seen, face_id),
              !.id2stream = Pop(t.id2stream, face_id)]

\* ------------------------------------------------------ cleanup_old_faces
\* The removal loop; np.array([None], dtype=np.int64) raises TypeError, which
\* ends the method with the earlier removals done.
RECURSIVE RemoveStale(_, _, _)
RemoveStale(t, to_remove, i) ==
    IF i > Len(to_remove) THEN [t |-> t, raised |-> "none"]
    ELSE IF to_remove[i] = NoneId THEN [t |-> t, raised |-> "TypeError"]
    ELSE RemoveStale(RemoveFace(t, to_remove[i]), to_remove, i + 1)

StaleTest(p, current_time) == current_time - p[2] > face_timeout

cleanup_old_faces(t, current_time) ==
    LET to_remove == DKeys(SelectSeq(t.id2last_seen,
                                     LAMBDA p : StaleTest(p, current_time)))
        r == RemoveStale(t, to_remove, 1)
    IN  IF r.raised = "none"
        THEN [t |-> _cleanup_pending(r.t, current_time), raised |-> "none"]
        ELSE r

\* ---------------------------------------------- consolidate_duplicate_ids
\* The test of lines 493-513 that id2 joins the group of id1.
ShouldMerge(t, id1, id2) ==
    LET similarity == cosine_similarity(DGet(t.id2emb, id1, <<0, 0>>),
                                        DGet(t.id2emb, id2, <<0, 0>>))
        iou_hit == /\ DHas(t.id2last_bbox, id1)
                   /\ DHas(t.id2last_bbox, id2)
                   /\ IouAtLeast(DGet(t.id2last_bbox, id1, <<>>),
                                 DGet(t.id2last_bbox, id2, <<>>),
                                 immediate_merge_iou, Scale)
        t1 == DGet(t.id2last_seen, id1, 0)
        t2 == DGet(t.id2last_seen, id2, 0)
        seen_close == Abs(t1 - t2) <= immediate_merge_time_window
    IN  \/ (similarity >= immediate_merge_threshold /\ seen_close) \/ iou_hit
        \/ similarity > consolidation_threshold

\* The inner loop: the ids after position i that join id1, in list order.
RECURSIVE SimilarIds(_, _, _, _, _)
SimilarIds(t, ids, id1, j, consolidated) ==
    IF j > Len(ids) THEN <<>>
    ELSE IF ids[j] \notin consolidated /\ ShouldMerge(t, id1, ids[j])
         THEN <<ids[j]>> \o SimilarIds(t, ids, id1, j + 1, consolidated)
         ELSE SimilarIds(t, ids, id1, j + 1, consolidated)

\* The highest id of the group instead of the lowest.
SeqMax(s) == CHOOSE m \in {s[i] : i \in 1..Len(s)} : \A i \in 1..Len(s) : m >= s[i]

SeqMin(s) == CHOOSE m \in {s[i] : i \in 1..Len(s)} : \A i \in 1..Len(s) : m <= s[i]

SeqToSet(s) == {s[i] : i \in 1..Len(s)}

\* primary_emb = 0.7 * primary_emb + 0.3 * other_emb, normalized, per other id
RECURSIVE MergeEmbeddings(_, _, _, _)
MergeEmbeddings(t, primary_emb, other_ids, i) ==
    IF i > Len(other_ids) THEN primary_emb
    ELSE MergeEmbeddings(t, Blend(primary_emb, DGet(t.id2emb, other_ids[i], <<0, 0>>), 300),
                         other_ids, i + 1)

\* Transfer of the suspicious status and match record, per other id
RECURSIVE TransferSuspicious(_, _, _, _)
TransferSuspicious(t, primary_id, other_ids, i) ==
    IF i > Len(other_ids) THEN t
    ELSE LET other_id == other_ids[i]
             t1 == IF Get(t.id_suspicious_status, other_id, FALSE)
                   THEN [t EXCEPT
                           !.id_suspicious_status = Put(@, primary_id, TRUE),
                           !.suspicious_map =
                               IF other_id \in DOMAIN t.suspicious_map
                               THEN Put(@, primary_id, t.suspicious_map[other_id])
                               ELSE @]
                   ELSE t
         IN  TransferSuspicious(t1, primary_id, other_ids, i + 1)

RECURSIVE RemoveOthers(_, _, _)
RemoveOthers(t, other_ids, i) ==
    IF i > Len(other_ids) THEN t
    ELSE RemoveOthers(RemoveFace(t, other_ids[i]), other_ids, i + 1)

\* Lines 516-555: merge the group similar_ids into its lowest id.
MergeGroup(t, similar_ids) ==
    LET primary_id == SeqMin(similar_ids)
        other_ids == SelectSeq(similar_ids, LAMBDA id : id # primary_id)
        primary_emb == MergeEmbeddings(t, DGet(t.id2emb, primary_id, <<0, 0>>),
                                       other_ids, 1)
        t1 == [t EXCEPT !.id2emb = DPut(@, primary_id, primary_emb)]
        t2 == TransferSuspicious(t1, primary_id, other_ids, 1)
        t3 == RemoveOthers(t2, other_ids, 1)
    IN  [t3 EXCEPT !.index = index_add_with_ids(index_remove_ids(@, primary_id),
                                                primary_emb, primary_id)]

RECURSIVE ConsolidateFrom(_, _, _, _)
ConsolidateFrom(t, ids, i, consolidated) ==
    IF i > Len(ids) THEN t
    ELSE IF ids[i] \in consolidated THEN ConsolidateFrom(t, ids, i + 1, consolidated)
    ELSE LET others == SimilarIds(t, ids, ids[i], i + 1, consolidated)
         IN  IF Len(others) > 0
             THEN ConsolidateFrom(MergeGroup(t, <<ids[i]>> \o others), ids, i + 1,
                                  consolidated \cup SeqToSet(others))
             ELSE ConsolidateFrom(t, ids, i + 1, consolidated)

consolidate_duplicate_ids(t) ==
    IF Len(t.id2emb) < 2 THEN t
    ELSE ConsolidateFrom(t, DKeys(t.id2emb), 1, {})

\* ------------------------------------------------------------ process_face
\* Lines 157-170: the first identity, in id2last_bbox order, owned by the
\* stream, seen within the reuse window and close to the observation.
StepC(t, stream_id, c, now_ts) ==
    LET hits == SelectSeq(t.id2last_bbox,
                    LAMBDA p : /\ Get(t.id2stream, p[1], "") = stream_id
                               /\ ~(now_ts - DGet(t.id2last_seen, p[1], 0)
                                        > reuse_time_window_s)
                               /\ WithinReuseDistance(c, Center(p[2])))
    IN  IF Len(hits) > 0 THEN [hit |-> TRUE, id |-> hits[1][1]]
                         ELSE [hit |-> FALSE, id |-> NoneId]

\* The re-link probation of a candidate (lines 185-204, 209-226, 231-248,
\* 349-362): a first hit opens the record, a later hit updates it and passes
\* once the record is old enough and its best similarity high enough.
Probation(relink, candidate_id, sim, now_ts) ==
    IF candidate_id \notin DOMAIN relink
    THEN [relink |-> Put(relink, candidate_id,
                         [start_ts |-> now_ts, last_ts |-> now_ts, best_sim |-> sim]),
          pass |-> FALSE]
    ELSE LET state == [relink[candidate_id] EXCEPT !.last_ts = now_ts,
                                                   !.best_sim = Max(@, sim)]
         IN  [relink |-> Put(relink, candidate_id, state),
              pass |-> /\ now_ts - state.start_ts >= relink_duration_s
                       /\ state.best_sim >= relink_min_confidence]

\* Lines 176-248: one candidate of the index search.  s is the loop state
\* [assigned_id, best_sim, relink_tracks].
StepDCandidate(t, bbox, now_ts, s, sim, face_id) ==
    LET spatial == /\ DHas(t.id2last_bbox, face_id)
                   /\ IouGreater(DGet(t.id2last_bbox, face_id, <<>>), bbox, 3, 10)
        gate == IF spatial
                THEN sim > tracking_threshold /\ sim > s.best_sim
                ELSE sim > tracking_threshold + 150 /\ sim > s.best_sim
        p1 == Probation(s.relink_tracks, face_id, sim, now_ts)
        s1 == IF ~gate THEN s
              ELSE IF p1.pass
                   THEN [assigned_id |-> face_id, best_sim |-> sim,
                         relink_tracks |-> p1.relink]
                   ELSE [s EXCEPT !.relink_tracks = p1.relink]
        continued == gate /\ ~p1.pass
        gate2 == ~continued /\ sim > 800 /\ sim > s1.best_sim
        p2 == Probation(s1.relink_tracks, face_id, sim, now_ts)
    IN  IF ~gate2 THEN s1
        ELSE IF p2.pass
             THEN [assigned_id |-> face_id, best_sim |-> sim,
                   relink_tracks |-> p2.relink]
             ELSE [s1 EXCEPT !.relink_tracks = p2.relink]

RECURSIVE StepD(_, _, _, _, _, _, _)
StepD(t, query_emb, bbox, now_ts, found, i, s) ==
    IF i > Len(found) THEN s
    ELSE LET entry == t.index[found[i]]
         IN  StepD(t, query_emb, bbox, now_ts, found, i + 1,
                   StepDCandidate(t, bbox, now_ts, s,
                                  InnerProduct(query_emb, entry[2]), entry[1]))

\* np.argmax: the first position of the largest value
ArgMax(xs) == CHOOSE i \in 1..Len(xs) :
                 /\ \A j \in 1..Len(xs) : xs[i] >= xs[j]
                 /\ \A j \in 1..(i - 1) : xs[j] < xs[i]

\* cosine_similarity(query_emb, np.stack(list(id2emb.values())))[0]
Similarities(t, query_emb) ==
    [i \in 1..Len(t.id2emb) |-> cosine_similarity(query_emb, t.id2emb[i][2])]

\* A creation that takes the number of active identities as the next id.
CreateIdByCount(t, emb) ==
    [t EXCEPT !.index = index_add_with_ids(@, emb, t.next_id),
              !.id2emb = DPut(@, t.next_id, emb),
              !.id_checked_in_db = Put(@, t.next_id, FALSE),
              !.id_suspicious_status = Put(@, t.next_id, FALSE),
              !.next_id = Len(t.id2emb) + 1,
              !.faces_since_rebuild = @ + 1,
              !.lifetime_ids = @ \cup {t.next_id}]

\* Lines 303-312, 372-380, 384-392: a new identity with the next id.
CreateId(t, emb) ==
    [t EXCEPT !.index = index_add_with_ids(@, emb, t.next_id),
              !.id2emb = DPut(@, t.next_id, emb),
              !.id_checked_in_db = Put(@, t.next_id, FALSE),
              !.id_suspicious_status = Put(@, t.next_id, FALSE),
              !.next_id = @ + 1,
              !.faces_since_rebuild = @ + 1,
              !.lifetime_ids = @ \cup {t.next_id}]

\* Lines 257-276: stage the observation into the pending track of its cell.
CellKey(stream_id, c) == <<stream_id, <<c[1] \div cell_size, c[2] \div cell_size>>>>

StagePending(t, cell_key, query_emb, bbox, now_ts) ==
    IF cell_key \notin DOMAIN t.pending_tracks
    THEN [t EXCEPT !.pending_tracks =
            Put(@, cell_key, [count |-> 1, first_ts |-> now_ts, last_ts |-> now_ts,
                              emb |-> query_emb, bbox |-> bbox])]
    ELSE LET pending == t.pending_tracks[cell_key]
         IN  [t EXCEPT !.pending_tracks =
                Put(@, cell_key, [count |-> pending.count + 1,
                                  first_ts |-> pending.first_ts,
                                  last_ts |-> now_ts,
                                  emb |-> Blend(pending.emb, query_emb, 300),
                                  bbox |-> bbox])]

\* Lines 318-332: the first identity, in id2last_bbox order, owned by the
\* stream, seen within the reuse window, overlapping or close.
OcclusionFallback(t, stream_id, bbox, c, now_ts) ==
    LET hits == SelectSeq(t.id2last_bbox,
                    LAMBDA p : /\ Get(t.id2stream, p[1], "") = stream_id
                               /\ ~(now_ts - DGet(t.id2last_seen, p[1], 0)
                                        > reuse_time_window_s)
                               /\ \/ IouGreater(bbox, p[2], 2, 10)
                                  \/ WithinReuseDistance(c, Center(p[2])))
    IN  IF Len(hits) > 0 THEN [hit |-> TRUE, id |-> hits[1][1]]
                         ELSE [hit |-> FALSE, id |-> NoneId]

\* Lines 253-393, entered with no identity assigned.  s is the state left by
\* the index search; the value is the frame [t, assigned_id, best_sim, rules,
\* created, returned]: returned means the method has returned (None, False, bbox).
StepE(t, s, query_emb, bbox, stream_id, c, now_ts) ==
    LET cell_key == CellKey(stream_id, c)
        t1 == StagePending(t, cell_key, query_emb, bbox, now_ts)
        promote == t1.pending_tracks[cell_key].count >= min_appearances_for_id
        sims == Similarities(t1, query_emb)
        matched == ~promote /\ Len(t1.id2emb) > 0 /\ sims[ArgMax(sims)] > 800
        t2 == _cleanup_pending(t1, now_ts)
        occ == OcclusionFallback(t1, stream_id, bbox, c, now_ts)
        base == [t |-> t1, assigned_id |-> NoneId, best_sim |-> s.best_sim,
                 rules |-> <<>>, created |-> <<>>, returned |-> FALSE,
                 recent_nearby_exists |-> FALSE, occluded_id |-> NoneId]
    IN  IF matched
        THEN [base EXCEPT !.assigned_id = t1.id2emb[ArgMax(sims)][1],
                          !.best_sim = Max(s.best_sim, 800),
                          !.rules = <<"E_match">>]
        ELSE IF promote
        THEN IF Len(t2.id2emb) >= t2.capacity
             THEN [base EXCEPT !.t = t2, !.returned = TRUE, !.rules = <<"E_capacity">>]
             ELSE [base EXCEPT
                     !.t = [CreateId(t2, t2.pending_tracks[cell_key].emb) EXCEPT
                              !.pending_tracks = Pop(@, cell_key)],
                     !.assigned_id = t2.next_id,
                     !.rules = <<"E_promote">>,
                     !.created = <<t2.next_id>>]
        ELSE [base EXCEPT !.recent_nearby_exists = occ.hit, !.occluded_id = occ.id]

\* The double check without the capacity test before the creation.
StepFGNoLimit(f, query_emb, now_ts) ==
    LET t == f.t
        sims == Similarities(t, query_emb)
        m == ArgMax(sims)
        candidate_id == t.id2emb[m][1]
        p == Probation(t.relink_tracks, candidate_id, sims[m], now_ts)
    IN  IF f.returned THEN f
        ELSE IF f.occluded_id # NoneId
        THEN [f EXCEPT !.assigned_id = f.occluded_id,
                       !.best_sim = Max(f.best_sim, 600),
                       !.rules = Append(@, "F")]
        ELSE IF Len(t.id2emb) > 0
        THEN IF sims[m] > similarity_reuse_threshold
             THEN [f EXCEPT !.t = [t EXCEPT !.relink_tracks = p.relink],
                            !.assigned_id = IF p.pass THEN candidate_id ELSE @,
                            !.rules = Append(@, IF p.pass THEN "G_relink"
                                                          ELSE "G_probation")]
             ELSE IF f.recent_nearby_exists
             THEN [f EXCEPT !.returned = TRUE, !.rules = Append(@, "G_nearby")]
             ELSE [f EXCEPT !.t = CreateId(t, query_emb),
                            !.assigned_id = t.next_id,
                            !.rules = Append(@, "G_new"),
                            !.created = Append(@, t.next_id)]
        ELSE [f EXCEPT !.t = CreateId(t, query_emb),
                       !.assigned_id = t.next_id,
                       !.rules = Append(@, "G_first"),
                       !.created = Append(@, t.next_id)]

\* Lines 334-393: the occlusion reuse, else the double check before a new id.
StepFG(f, query_emb, now_ts) ==
    LET t == f.t
        sims == Similarities(t, query_emb)
        m == ArgMax(sims)
        candidate_id == t.id2emb[m][1]
        p == Probation(t.relink_tracks, candidate_id, sims[m], now_ts)
    IN  IF f.returned THEN f
        ELSE IF f.occluded_id # NoneId
        THEN [f EXCEPT !.assigned_id = f.occluded_id,
                       !.best_sim = Max(f.best_sim, 600),
                       !.rules = Append(@, "F")]
        ELSE IF Len(t.id2emb) > 0
        THEN IF sims[m] > similarity_reuse_threshold
             THEN [f EXCEPT !.t = [t EXCEPT !.relink_tracks = p.relink],
                            !.assigned_id = IF p.pass THEN candidate_id ELSE @,
                            !.rules = Append(@, IF p.pass THEN "G_relink"
                                                          ELSE "G_probation")]
             ELSE IF f.recent_nearby_exists
             THEN [f EXCEPT !.returned = TRUE, !.rules = Append(@, "G_nearby")]
             ELSE IF Len(t.id2emb) >= t.capacity
             THEN [f EXCEPT !.returned = TRUE, !.rules = Append(@, "G_capacity")]
             ELSE [f EXCEPT !.t = CreateId(t, query_emb),
                            !.assigned_id = t.next_id,
                            !.rules = Append(@, "G_new"),
                            !.created = Append(@, t.next_id)]
        ELSE [f EXCEPT !.t = CreateId(t, query_emb),
                       !.assigned_id = t.next_id,
                       !.rules = Append(@, "G_first"),
                       !.created = Append(@, t.next_id)]

\* Lines 396-405: the embedding update of an identity assigned by the
\* spatial-temporal reuse or by the index search.
UpdateEmbedding(t, assigned_id, best_sim, query_emb) ==
    LET old_emb == DGet(t.id2emb, assigned_id, <<0, 0>>)
        weight == Min(500, RDiv(best_sim * 300, Scale))
        new_emb == Blend(old_emb, query_emb, weight)
    IN  [t EXCEPT !.id2emb = DPut(@, assigned_id, new_emb),
                  !.index = index_add_with_ids(index_remove_ids(@, assigned_id),
                                               new_emb, assigned_id)]

\* Lines 408-423: bbox smoothing, last seen, owning stream, probation cleared.
SmoothBBox(bbox, last_bbox) ==
    [i \in 1..4 |-> TruncDiv(3 * bbox[i] + 7 * last_bbox[i], 10)]

UpdateTrack(t, assigned_id, bbox, stream_id, now_ts) ==
    [t EXCEPT !.id2last_bbox = DPut(@, assigned_id, bbox),
              !.id2last_seen = DPut(@, assigned_id, now_ts),
              !.id2stream = Put(@, assigned_id, stream_id),
              !.relink_tracks = Pop(@, assigned_id)]

\* np.argsort(sims_db)[::-1][:top_k] for top_k = 1: the last position of the
\* largest score.
ArgMaxLast(xs) == CHOOSE i \in 1..Len(xs) :
                     /\ \A j \in 1..Len(xs) : xs[i] >= xs[j]
                     /\ \A j \in (i + 1)..Len(xs) : xs[j] < xs[i]

\* Lines 428-446: the classification of an identity against the watchlist.
Classify(t, assigned_id) ==
    LET current_emb == DGet(t.id2emb, assigned_id, <<0, 0>>)
        sims_db == [i \in 1..Len(t.stored_embeddings) |->
                       cosine_similarity(current_emb, t.stored_embeddings[i])]
        idx == ArgMaxLast(sims_db)
    IN  IF Len(t.stored_embeddings) > 0 /\ sims_db[idx] > threshold
        THEN [t EXCEPT !.id_suspicious_status = Put(@, assigned_id, TRUE),
                       !.suspicious_map = Put(@, assigned_id,
                            [label |-> t.stored_labels[idx], score |-> sims_db[idx]]),
                       !.lifetime_suspicious_ids = @ \cup {assigned_id}]
        ELSE [t EXCEPT !.id_suspicious_status = Put(@, assigned_id, FALSE)]

\* Line 436: self.stored_labels[idx] raises IndexError when the best row of
\* the matrix scores above the threshold and the metadata array is shorter
\* than the matrix.
LabelMissing(t, assigned_id) ==
    LET current_emb == DGet(t.id2emb, assigned_id, <<0, 0>>)
        sims_db == [i \in 1..Len(t.stored_embeddings) |->
                       cosine_similarity(current_emb, t.stored_embeddings[i])]
        idx == ArgMaxLast(sims_db)
    IN  /\ Len(t.stored_embeddings) > 0
        /\ sims_db[idx] > threshold
        /\ idx > Len(t.stored_labels)

\* Lines 461-470: the index rebuilt from id2emb.
RebuildIndex(t) == [t EXCEPT !.index = t.id2emb, !.faces_since_rebuild = 0]

\* Lines 453-470: every rebuild_interval new identities, the cleanup, a
\* consolidation and the index rebuilt; cl is what cleanup_old_faces left,
\* ran the maintenance steps the call has run before.
StepJRebuild(cl, ran) ==
    IF cl.raised # "none"
    THEN [t |-> cl.t, raised |-> cl.raised, ran |-> Append(ran, "cleanup")]
    ELSE [t |-> RebuildIndex(consolidate_duplicate_ids(cl.t)), raised |-> "none",
          ran |-> ran \o <<"cleanup", "consolidate", "rebuild">>]

\* Lines 449-470: the periodic maintenance at the end of process_face.  The
\* value is [t, raised, ran]: ran lists the maintenance steps run, in order.
StepJ(t, now_ts) ==
    IF t.faces_since_rebuild % consolidation_check_interval = 0
    THEN CHOOSE r \in {IF tc.faces_since_rebuild >= rebuild_interval
                       THEN StepJRebuild(cleanup_old_faces(tc, now_ts),
                                         <<"consolidate">>)
                       ELSE [t |-> tc, raised |-> "none",
                             ran |-> <<"consolidate">>] :
                       tc \in {consolidate_duplicate_ids(t)}} : TRUE
    ELSE IF t.faces_since_rebuild >= rebuild_interval
         THEN StepJRebuild(cleanup_old_faces(t, now_ts), <<>>)
         ELSE [t |-> t, raised |-> "none", ran |-> <<>>]

\* What an operation reports: the returned triple of process_face
\* (assigned_id, is_suspicious, bbox), the exception it raised if any, the
\* rules that fired in order, the ids it created in order, the key whose
\* watchlist check ran, the observation it was given, the time of the call and
\* the periodic maintenance steps the call ran, in order.
Report(op, assigned_id, is_suspicious, bbox, raised, rules, created, classified, stream_id, query_emb, in_bbox, at) ==
    [op |-> op, assigned_id |-> assigned_id, is_suspicious |-> is_suspicious,
     bbox |-> bbox, raised |-> raised, rules |-> rules, created |-> created,
     classified |-> classified, stream_id |-> stream_id, query_emb |-> query_emb,
     in_bbox |-> in_bbox, at |-> at, ran |-> <<>>]

NoReport(op, raised, at) ==
    Report(op, NoneId, FALSE, <<>>, raised, <<>>, <<>>, {}, "", <<>>, <<>>, at)

\* Lines 472 and the exceptions: the return of process_face after the
\* periodic maintenance; j is what the maintenance left.
FinishReturn(f, a, draw_bbox, j, classified, query_emb, bbox, stream_id, now_ts) ==
    IF j.raised # "none"
    THEN [t |-> j.t,
          res |-> [Report("process_face", NoneId, FALSE, <<>>, j.raised, f.rules,
                          f.created, classified, stream_id, query_emb, bbox, now_ts)
                      EXCEPT !.ran = j.ran]]
    ELSE [t |-> j.t,
          res |-> [Report("process_face", a, Get(j.t.id_suspicious_status, a, FALSE),
                          draw_bbox, "none", f.rules, f.created, classified, stream_id,
                          query_emb, bbox, now_ts)
                      EXCEPT !.ran = j.ran]]

\* A watchlist check that ignores the checked flag.
FinishCheckAlways(f, a, draw_bbox, t1, query_emb, bbox, stream_id, now_ts) ==
    IF Len(t1.stored_embeddings) > 0 /\ ~DHas(t1.id2emb, a)
    THEN [t |-> [t1 EXCEPT !.id_checked_in_db = Put(@, a, TRUE)],
          res |-> Report("process_face", NoneId, FALSE, <<>>, "KeyError", f.rules,
                         f.created, {a}, stream_id, query_emb, bbox, now_ts)]
    ELSE IF LabelMissing(t1, a)
    THEN [t |-> [t1 EXCEPT !.id_checked_in_db = Put(@, a, TRUE)],
          res |-> Report("process_face", NoneId, FALSE, <<>>, "IndexError", f.rules,
                         f.created, {a}, stream_id, query_emb, bbox, now_ts)]
    ELSE CHOOSE r \in {FinishReturn(f, a, draw_bbox, j, {a}, query_emb, bbox, stream_id,
                                    now_ts) :
                          j \in {StepJ(Classify([t1 EXCEPT !.id_checked_in_db =
                                                               Put(@, a, TRUE)], a),
                                       now_ts)}} : TRUE

\* Lines 425-446: the watchlist check of a key not checked yet; t1 is the
\* tracker after the track update.  self.id2emb[assigned_id] raises KeyError
\* for a key that has no embedding, self.stored_labels[idx] IndexError for a
\* row that has no metadata.
FinishCheck(f, a, draw_bbox, t1, query_emb, bbox, stream_id, now_ts) ==
    IF Get(t1.id_checked_in_db, a, FALSE)
    THEN CHOOSE r \in {FinishReturn(f, a, draw_bbox, j, {}, query_emb, bbox, stream_id,
                                    now_ts) : j \in {StepJ(t1, now_ts)}} : TRUE
    ELSE IF Len(t1.stored_embeddings) > 0 /\ ~DHas(t1.id2emb, a)
    THEN [t |-> [t1 EXCEPT !.id_checked_in_db = Put(@, a, TRUE)],
          res |-> Report("process_face", NoneId, FALSE, <<>>, "KeyError", f.rules,
                         f.created, {a}, stream_id, query_emb, bbox, now_ts)]
    ELSE IF LabelMissing(t1, a)
    THEN [t |-> [t1 EXCEPT !.id_checked_in_db = Put(@, a, TRUE)],
          res |-> Report("process_face", NoneId, FALSE, <<>>, "IndexError", f.rules,
                         f.created, {a}, stream_id, query_emb, bbox, now_ts)]
    ELSE CHOOSE r \in {FinishReturn(f, a, draw_bbox, j, {a}, query_emb, bbox, stream_id,
                                    now_ts) :
                          j \in {StepJ(Classify([t1 EXCEPT !.id_checked_in_db =
                                                               Put(@, a, TRUE)], a),
                                       now_ts)}} : TRUE

\* Lines 407-423: the bbox update; draw_bbox is the smoothed bbox.
FinishTrack(f, a, draw_bbox, query_emb, bbox, stream_id, now_ts) ==
    CHOOSE r \in {FinishCheck(f, a, draw_bbox, t1, query_emb, bbox, stream_id, now_ts) :
                     t1 \in {UpdateTrack(f.t, a, draw_bbox, stream_id, now_ts)}} : TRUE

\* Lines 407-472: from the bbox update to the return.  f is the frame
\* [t, assigned_id, rules, created]; assigned_id may be None.
Finish(f, query_emb, bbox, stream_id, now_ts) ==
    CHOOSE r \in {FinishTrack(f, f.assigned_id, draw_bbox, query_emb, bbox, stream_id,
                               now_ts) :
                     draw_bbox \in {IF DHas(f.t.id2last_bbox, f.assigned_id)
                                    THEN SmoothBBox(bbox, DGet(f.t.id2last_bbox,
                                                               f.assigned_id, <<>>))
                                    ELSE bbox}} : TRUE

\* Lines 138-405 have run: fE is the frame they left.  The call has returned
\* (None, False, bbox) or goes on from the track update to the return.
AfterStepG(fE, query_emb, bbox, stream_id, now_ts) ==
    IF fE.returned
    THEN [t |-> fE.t,
          res |-> Report("process_face", NoneId, FALSE, bbox, "none", fE.rules,
                         fE.created, {}, stream_id, query_emb, bbox, now_ts)]
    ELSE Finish(fE, query_emb, bbox, stream_id, now_ts)

\* Lines 173-248 have run: s1 is the loop state they left, sc the answer of
\* the spatial-temporal reuse.  Lines 253-393 run when no identity is
\* assigned, lines 394-405 when one is.  The value is the frame
\* [t, assigned_id, rules, created, returned] the assignment leaves.
AfterStepD(t, sc, s1, query_emb, bbox, stream_id, c, now_ts) ==
    IF s1.assigned_id = NoneId
    THEN CHOOSE f \in {StepFG(fE, query_emb, now_ts) :
                        fE \in {StepE([t EXCEPT !.relink_tracks = s1.relink_tracks], s1,
                                      query_emb, bbox, stream_id, c, now_ts)}} : TRUE
    ELSE [t |-> UpdateEmbedding([t EXCEPT !.relink_tracks = s1.relink_tracks],
                                s1.assigned_id, s1.best_sim, query_emb),
          assigned_id |-> s1.assigned_id,
          rules |-> IF sc.hit /\ s1.assigned_id = sc.id /\ s1.best_sim = Scale
                    THEN <<"C">> ELSE <<"D">>,
          created |-> <<>>,
          returned |-> FALSE]

\* Lines 157-170 have run: sc is their answer.  The loop over the index
\* search starts from the assignment they made.
AfterStepC(t, sc, s0, query_emb, bbox, stream_id, c, now_ts, found) ==
    CHOOSE f \in {AfterStepD(t, sc, s1, query_emb, bbox, stream_id, c, now_ts) :
                    s1 \in {IF Len(t.index) > 0
                            THEN StepD(t, query_emb, bbox, now_ts, found, 1, s0)
                            ELSE s0}} : TRUE

\* Lines 142-170: the face has the minimum size.
AfterStepA(t, sc, query_emb, bbox, stream_id, c, now_ts, found) ==
    AfterStepC(t, sc,
               [assigned_id |-> sc.id, best_sim |-> IF sc.hit THEN Scale ELSE 0,
                relink_tracks |-> t.relink_tracks],
               query_emb, bbox, stream_id, c, now_ts, found)

\* A size gate that rejects a face only when both sides are too short.
AssignBothSides(t, face_embedding, bbox, stream_id, now_ts, found) ==
    IF bbox[3] - bbox[1] < min_face_size /\ bbox[4] - bbox[2] < min_face_size
    THEN [t |-> t, assigned_id |-> NoneId, rules |-> <<"A_size">>, created |-> <<>>,
          returned |-> TRUE]
    ELSE AfterStepA(t, StepC(t, stream_id, Center(bbox), now_ts),
                    Normalize(face_embedding), bbox, stream_id, Center(bbox), now_ts,
                    found)

\* Lines 138-405: the size gate and the assignment of an identity, up to the
\* point where the call either has returned (None, False, bbox) or goes on to
\* the track update.  found is the answer of the index search.
Assign(t, face_embedding, bbox, stream_id, now_ts, found) ==
    IF bbox[3] - bbox[1] < min_face_size \/ bbox[4] - bbox[2] < min_face_size
    THEN [t |-> t, assigned_id |-> NoneId, rules |-> <<"A_size">>, created |-> <<>>,
          returned |-> TRUE]
    ELSE CHOOSE f \in {AfterStepA(t, sc, q, bbox, stream_id, c, now_ts, found) :
                         sc \in {StepC(t, stream_id, Center(bbox), now_ts)},
                         q \in {Normalize(face_embedding)},
                         c \in {Center(bbox)}} : TRUE

\* process_face(face_embedding, bbox, stream_id) at time now_ts; found is the
\* answer of the index search.  The value is [t, res]: the tracker after the
\* call and the report of the call.
process_face(t, face_embedding, bbox, stream_id, now_ts, found) ==
    CHOOSE r \in {AfterStepG(f, q, bbox, stream_id, now_ts) :
                     f \in {Assign(t, face_embedding, bbox, stream_id, now_ts, found)},
                     q \in {Normalize(face_embedding)}} : TRUE

\* ----------------------------------------------------------------- inputs
\* The observations the stream workers deliver: [emb, bbox, stream].
Obs(emb, bbox, stream) == [emb |-> emb, bbox |-> bbox, stream |-> stream]

\* Raw (not yet normalised) embeddings, by direction: EmbA at 0 degrees, EmbP
\* at 36 (cosine 0.809 with EmbA), EmbB at 45.6 (cosine 0.70 with EmbA), EmbQ
\* at 111 (cosine below 0.30 with the others).
EmbA == <<2000, 0>>
EmbP == <<1620, 1176>>
EmbB == <<1400, 1428>>
EmbQ == <<0 - 716, 1868>>
\* EmbK at 56 degrees: cosine 0.56 with EmbA and 0.57 with EmbQ.
EmbK == <<1118, 1658>>

BoxNear == <<100, 100, 200, 200>>
BoxFar == <<400, 100, 500, 200>>
BoxSmall == <<100, 100, 120, 200>>
\* A face beside BoxNear: no overlap with it, centres 110 px apart.
BoxBeside == <<210, 100, 310, 200>>
\* A face close to the camera: IoU 0.25 with BoxNear, centres 150 px apart.
BoxWide == <<100, 100, 500, 200>>

\* One camera showing a face that stays in place with a changing embedding,
\* and a second camera showing a face elsewhere in its frame.
DeepObservations ==
    {Obs(EmbA, BoxFar, "s2"), Obs(EmbP, BoxNear, "s1"), Obs(EmbQ, BoxNear, "s1")}

\* Two cameras that show faces at the same place of their frames, the second
\* one also a face elsewhere.
CrossObservations ==
    {Obs(EmbA, BoxFar, "s2"), Obs(EmbB, BoxNear, "s1"), Obs(EmbQ, BoxNear, "s1"),
     Obs(EmbA, BoxNear, "s2"), Obs(EmbK, BoxFar, "s2")}

\* Three faces that resemble each other too little to share an identity.
FullObservations ==
    {Obs(EmbQ, BoxNear, "s1"), Obs(EmbA, BoxNear, "s2"), Obs(EmbK, BoxFar, "s2")}

Observations ==
    DeepObservations \cup {Obs(EmbB, BoxNear, "s1"), Obs(EmbA, BoxSmall, "s1")}

\* The rows the watchlist table may hold when it is read: none, or one row at
\* 161 degrees (cosine 0.64 with EmbQ, negative with EmbA, EmbP and EmbB).
Watchlists == {<<>>, <<<<0 - 2838, 978>>>>}

\* The steps by which the clock is seen to advance between operations.
TickSteps == {31, 301}

\* The step by which the clock advances while no camera shows a face.
IdleSteps == {face_timeout + 1}

\* ---------------------------------------------------------------- actions
\* The starts of the stream a run may see; start g runs its own capture
\* thread and its own processing thread.
Starts == 1..MaxStarts

\* StreamProcessor.__init__: nothing started, both queues empty.
\* No frame is being worked on: faces are the detections still to visit,
\* processed_faces the list of lines 779 and 806, assigned the detections of
\* the frame that were given an identity, each with the identity, and frames
\* the number of frames analysed so far.
NoFrame == [pc |-> "idle", faces |-> <<>>, processed_faces |-> <<>>, assigned |-> <<>>, frames |-> 0]

StreamInit ==
    /\ stop_flag = FALSE
    /\ is_streaming = FALSE
    /\ cap = "none"
    /\ frame_queue = <<>>
    /\ output_queue = <<>>
    /\ capture_thread = [g \in Starts |-> [pc |-> "unborn", frame |-> 0]]
    /\ processing_thread =
          [g \in Starts |-> [pc |-> "unborn", item |-> 0, observed |-> FALSE]]
    /\ request = [op |-> "idle", pc |-> "idle"]
    /\ grabbed = 0
    /\ face_loop = NoFrame

Init ==
    /\ index = <<>>
    /\ next_id = 0
    /\ id2emb = <<>>
    /\ id_checked_in_db = EmptyDict
    /\ id_suspicious_status = EmptyDict
    /\ suspicious_map = EmptyDict
    /\ id2last_bbox = <<>>
    /\ id2last_seen = <<>>
    /\ id2stream = EmptyDict
    /\ pending_tracks = EmptyDict
    /\ lifetime_ids = {}
    /\ lifetime_suspicious_ids = {}
    /\ relink_tracks = EmptyDict
    /\ faces_since_rebuild = 0
    /\ stored_embeddings \in Watchlists
    /\ stored_labels = [i \in 1..Len(stored_embeddings) |-> i]
    /\ now = 0
    /\ calls = 0
    /\ ticks = 0
    /\ result = NoReport("init", "none", 0)
    /\ lock = "free"
    /\ inflight = [th \in Threads |-> Idle]
    /\ StreamInit

\* A stream worker calls process_face for one detected face, on a tracker
\* whose registry holds at most max_ids identities.
ProcessFaceWithin(observations, max_calls, max_ids) ==
    /\ calls < max_calls
    /\ \E o \in observations :
         \E found \in index_search(index, Normalize(o.emb), Min(10, Len(index))) :
           \E r \in {process_face([Self EXCEPT !.capacity = max_ids], o.emb, o.bbox,
                                  o.stream, now, found)} :
              /\ Commit(r.t)
              /\ result' = r.res
    /\ calls' = calls + 1
    /\ UNCHANGED <<stream_vars, now, ticks, lock, inflight>>

\* A stream worker calls process_face for one detected face.
ProcessFace(observations, max_calls) ==
    ProcessFaceWithin(observations, max_calls, capacity)

\* POST /api/consolidate_ids.  A call that changes nothing is a stuttering step.
ConsolidateIds ==
    /\ \E t \in {consolidate_duplicate_ids(Self)} :
          /\ t # Self
          /\ Commit(t)
    /\ result' = NoReport("consolidate_duplicate_ids", "none", now)
    /\ UNCHANGED <<stream_vars, now, calls, ticks, lock, inflight>>

\* POST /api/cleanup_faces.  A call that changes nothing and raises nothing is
\* a stuttering step.
CleanupFaces ==
    /\ \E r \in {cleanup_old_faces(Self, now)} :
          /\ r.t # Self \/ r.raised # "none"
          /\ Commit(r.t)
          /\ result' = NoReport("cleanup_old_faces", r.raised, now)
    /\ UNCHANGED <<stream_vars, now, calls, ticks, lock, inflight>>

\* POST /api/reload_db: load_embeddings_from_db reads the table again.  A
\* reload that finds the same rows is a stuttering step.
ReloadDb(watchlists) ==
    /\ \E rows \in watchlists :
          /\ rows # stored_embeddings
          /\ stored_embeddings' = rows
          /\ stored_labels' = [i \in 1..Len(rows) |-> i]
    /\ result' = NoReport("load_embeddings_from_db", "none", now)
    /\ UNCHANGED <<stream_vars, registry_vars, now, calls, ticks, lock, inflight>>

\* The clock advances.
Tick(steps) ==
    /\ ticks < MaxTicks
    /\ \E dt \in steps : now' = now + dt
    /\ ticks' = ticks + 1
    /\ UNCHANGED <<stream_vars, tracker_vars, calls, result, lock, inflight>>

Next ==
    \/ ProcessFace(Observations, MaxCalls)
    \/ ConsolidateIds
    \/ CleanupFaces
    \/ ReloadDb(Watchlists)
    \/ Tick(TickSteps)

Spec == Init /\ [][Next]_vars

\* The tracker late in a run: rebuild_interval - 2 identities were created
\* one per call, all of them went stale and cleanup_old_faces removed them, so
\* that the periodic rebuild of the index is two creations away.
InitLate ==
    /\ index = <<>>
    /\ next_id = rebuild_interval - 2
    /\ id2emb = <<>>
    /\ id_checked_in_db = EmptyDict
    /\ id_suspicious_status = EmptyDict
    /\ suspicious_map = EmptyDict
    /\ id2last_bbox = <<>>
    /\ id2last_seen = <<>>
    /\ id2stream = EmptyDict
    /\ pending_tracks = EmptyDict
    /\ lifetime_ids = 0..(rebuild_interval - 3)
    /\ lifetime_suspicious_ids = {}
    /\ relink_tracks = EmptyDict
    /\ faces_since_rebuild = rebuild_interval - 2
    /\ stored_embeddings \in Watchlists
    /\ stored_labels = [i \in 1..Len(stored_embeddings) |-> i]
    /\ now = 0
    /\ calls = 0
    /\ ticks = 0
    /\ result = NoReport("init", "none", 0)
    /\ lock = "free"
    /\ inflight = [th \in Threads |-> Idle]
    /\ StreamInit

SpecLate == InitLate /\ [][Next]_vars

\* Longer runs of the two cameras with no pause between the calls.
NextDeep ==
    \/ ProcessFace(DeepObservations, MaxDeepCalls)
    \/ ConsolidateIds
    \/ ReloadDb(Watchlists)

SpecDeep == Init /\ [][NextDeep]_vars

\* Runs of the two cameras over the same place, with no pause between the
\* calls.
NextCross ==
    \/ ProcessFace(CrossObservations, MaxCrossCalls)
    \/ ConsolidateIds

SpecCross == Init /\ [][NextCross]_vars

\* Runs of the two cameras with pauses longer than face_timeout, and the
\* cleanup endpoint.
NextIdle ==
    \/ ProcessFace(DeepObservations, MaxIdleCalls)
    \/ CleanupFaces
    \/ Tick(IdleSteps)

SpecIdle == Init /\ [][NextIdle]_vars

\* Runs that fill the registry: the tracker with the capacity SmallCapacity.
NextFull ==
    \/ ProcessFaceWithin(FullObservations, MaxFullCalls, SmallCapacity)
    \/ ConsolidateIds

SpecFull == Init /\ [][NextFull]_vars

\* One camera showing, with no pause between the calls, a face close by and a
\* face further away that overlap in the frame.
WideObservations ==
    {Obs(EmbQ, BoxWide, "s1"), Obs(EmbA, BoxNear, "s1")}

NextWide == ProcessFace(WideObservations, MaxWideCalls)

SpecWide == Init /\ [][NextWide]_vars

\* ------------------------------------------------ the threads and the lock
\* A request of a lock that ignores its holder.
CanAcquireAlways(th) == TRUE

\* 'with self.lock' (threading.RLock): the thread goes on when the lock is
\* free or its own.
CanAcquire(th) == lock \in {"free", th}

\* The processing thread of a stream enters process_face and takes the lock.
WorkerEnter(observations, max_calls) ==
    /\ calls < max_calls
    /\ \E o \in observations :
          /\ inflight[o.stream] = Idle
          /\ CanAcquire(o.stream)
          /\ lock' = o.stream
          /\ inflight' = [inflight EXCEPT ![o.stream] =
                            [op |-> "process_face", phase |-> "locked", obs |-> o,
                             found |-> <<>>, frame |-> <<>>, start |-> Self]]
    /\ UNCHANGED <<stream_vars, tracker_vars, now, calls, ticks, result>>

\* Lines 138-405 of the call a thread has begun: the assignment.
WorkerAssign ==
    \E th \in Threads :
       /\ inflight[th].op = "process_face"
       /\ inflight[th].phase = "locked"
       /\ \E found \in index_search(index, Normalize(inflight[th].obs.emb),
                                    Min(10, Len(index))) :
            \E f \in {Assign(Self, inflight[th].obs.emb, inflight[th].obs.bbox,
                              inflight[th].obs.stream, now, found)} :
               /\ Commit(f.t)
               /\ inflight' = [inflight EXCEPT ![th] =
                                 [op |-> "process_face", phase |-> "assigned",
                                  obs |-> inflight[th].obs, found |-> found,
                                  frame |-> [assigned_id |-> f.assigned_id,
                                             rules |-> f.rules,
                                             created |-> f.created,
                                             returned |-> f.returned],
                                  start |-> inflight[th].start]]
       /\ UNCHANGED <<stream_vars, now, calls, ticks, result, lock>>

\* Lines 407-472 of the call a thread has begun: the track update, the
\* watchlist check, the periodic maintenance, the return and the release of
\* the lock.
WorkerFinish ==
    \E th \in Threads :
       /\ inflight[th].op = "process_face"
       /\ inflight[th].phase = "assigned"
       /\ \E r \in {AfterStepG([t |-> Self,
                                 assigned_id |-> inflight[th].frame.assigned_id,
                                 rules |-> inflight[th].frame.rules,
                                 created |-> inflight[th].frame.created,
                                 returned |-> inflight[th].frame.returned],
                                Normalize(inflight[th].obs.emb), inflight[th].obs.bbox,
                                inflight[th].obs.stream, now)} :
             /\ Commit(r.t)
             /\ result' = r.res
       /\ calls' = calls + 1
       /\ lock' = "free"
       /\ inflight' = [inflight EXCEPT ![th] = Idle]
       /\ UNCHANGED <<stream_vars, now, ticks>>

\* A request thread enters cleanup_faces or consolidate_ids and takes the lock
\* (lines 980 and 998).
ApiEnter ==
    /\ inflight["api"] = Idle
    /\ CanAcquire("api")
    /\ \E op \in {"consolidate_duplicate_ids", "cleanup_old_faces"} :
          inflight' = [inflight EXCEPT !["api"] = [op |-> op]]
    /\ lock' = "api"
    /\ UNCHANGED <<stream_vars, tracker_vars, now, calls, ticks, result>>

\* Lines 999-1001: the consolidation of the request, and the lock released.
ApiConsolidate ==
    /\ inflight["api"].op = "consolidate_duplicate_ids"
    /\ Commit(consolidate_duplicate_ids(Self))
    /\ result' = NoReport("consolidate_duplicate_ids", "none", now)
    /\ lock' = "free"
    /\ inflight' = [inflight EXCEPT !["api"] = Idle]
    /\ UNCHANGED <<stream_vars, now, calls, ticks>>

\* Lines 981-983: the cleanup of the request, and the lock released.
ApiCleanup ==
    /\ inflight["api"].op = "cleanup_old_faces"
    /\ \E r \in {cleanup_old_faces(Self, now)} :
          /\ Commit(r.t)
          /\ result' = NoReport("cleanup_old_faces", r.raised, now)
    /\ lock' = "free"
    /\ inflight' = [inflight EXCEPT !["api"] = Idle]
    /\ UNCHANGED <<stream_vars, now, calls, ticks>>

\* The clock advances while no operation is under way.
IdleTick ==
    /\ \A th \in Threads : inflight[th] = Idle
    /\ Tick(IdleSteps)

\* The two processing threads and a request thread, each operation in steps.
NextLock ==
    \/ WorkerEnter(DeepObservations, MaxLockCalls)
    \/ WorkerAssign
    \/ WorkerFinish
    \/ ApiEnter
    \/ ApiConsolidate
    \/ ApiCleanup
    \/ IdleTick

SpecLock == Init /\ [][NextLock]_vars

\* ------------------------------------------------- the reload, in steps
\* Lines 103-105 of load_embeddings_from_db, called by reload_database with
\* no lock taken: the rows are fetched and the two arrays are set to [].
ReloadBegin(watchlists) ==
    /\ inflight["reload"] = Idle
    /\ \E rows \in watchlists :
          inflight' = [inflight EXCEPT !["reload"] =
                         [op |-> "load_embeddings_from_db", rows |-> rows,
                          old_embeddings |-> stored_embeddings,
                          old_labels |-> stored_labels]]
    /\ stored_embeddings' = <<>>
    /\ stored_labels' = <<>>
    /\ UNCHANGED <<stream_vars, registry_vars, now, calls, ticks, result, lock>>

\* Lines 106-107: the embedding of the next row is appended.
ReloadAppendEmbedding ==
    /\ inflight["reload"].op = "load_embeddings_from_db"
    /\ Len(stored_embeddings) = Len(stored_labels)
    /\ Len(stored_embeddings) < Len(inflight["reload"].rows)
    /\ stored_embeddings' =
          Append(stored_embeddings, inflight["reload"].rows[Len(stored_embeddings) + 1])
    /\ UNCHANGED <<stream_vars, registry_vars, stored_labels, now, calls, ticks, result, lock,
                   inflight>>

\* Lines 108-114: the metadata of the row is appended.
ReloadAppendLabel ==
    /\ inflight["reload"].op = "load_embeddings_from_db"
    /\ Len(stored_labels) < Len(stored_embeddings)
    /\ stored_labels' = Append(stored_labels, Len(stored_labels) + 1)
    /\ UNCHANGED <<stream_vars, registry_vars, stored_embeddings, now, calls, ticks, result, lock,
                   inflight>>

\* Lines 115-119: the list of embeddings becomes a matrix with the same rows
\* and the function returns.
ReloadStack ==
    /\ inflight["reload"].op = "load_embeddings_from_db"
    /\ Len(stored_labels) = Len(inflight["reload"].rows)
    /\ Len(stored_embeddings) = Len(inflight["reload"].rows)
    /\ inflight' = [inflight EXCEPT !["reload"] = Idle]
    /\ result' = NoReport("load_embeddings_from_db", "none", now)
    /\ UNCHANGED <<stream_vars, tracker_vars, now, calls, ticks, lock>>

\* The processing threads, and a request thread that reloads the watchlist
\* step by step.
NextReload ==
    \/ ProcessFace(DeepObservations, MaxCalls)
    \/ ReloadBegin(Watchlists)
    \/ ReloadAppendEmbedding
    \/ ReloadAppendLabel
    \/ ReloadStack

SpecReload == Init /\ [][NextReload]_vars

\* ------------------------------------------------- the stream processor
\* queue.Queue(maxsize=5) and queue.Queue(maxsize=2) of lines 635-636.
frame_queue_maxsize == 5

output_queue_maxsize == 2

\* A put that ignores the size of the queue.
put_nowaitUnbounded(q, maxsize, x) == Append(q, x)

\* q.put_nowait(x) inside 'try ... except queue.Full: pass': the queue after it.
put_nowait(q, maxsize, x) == IF Len(q) < maxsize THEN Append(q, x) ELSE q

\* The face the detector finds in frame n: one person who stays in place in
\* front of the camera of stream "s1", the embedding changing from frame to
\* frame.
FrameFace(n) == IF n % 2 = 1 THEN Obs(EmbQ, BoxNear, "s1") ELSE Obs(EmbK, BoxNear, "s1")

\* POST /api/start_stream, lines 651-653 of StreamProcessor.start_stream: a
\* stream that is running is stopped first.
RequestStart(starts) ==
    /\ request.op = "idle"
    /\ \E g \in 1..starts : capture_thread[g].pc = "unborn"
    /\ request' = [op |-> "start_stream",
                   pc |-> IF is_streaming THEN "set" ELSE "start"]
    /\ UNCHANGED <<face_loop, tracker_vars, now, calls, ticks, result, lock, inflight, stop_flag,
                   is_streaming, cap, frame_queue, output_queue, capture_thread,
                   processing_thread, grabbed>>

\* POST /api/stop_stream: remove_processor calls stop_stream of a processor
\* that was started.
RequestStop ==
    /\ request.op = "idle"
    /\ capture_thread[1].pc # "unborn"
    /\ request' = [op |-> "stop_stream", pc |-> "set"]
    /\ UNCHANGED <<face_loop, tracker_vars, now, calls, ticks, result, lock, inflight, stop_flag,
                   is_streaming, cap, frame_queue, output_queue, capture_thread,
                   processing_thread, grabbed>>

\* Lines 679-680 of stop_stream.
StopSetFlag ==
    /\ request.pc = "set"
    /\ stop_flag' = TRUE
    /\ is_streaming' = FALSE
    /\ request' = [request EXCEPT !.pc = "join"]
    /\ UNCHANGED <<face_loop, tracker_vars, now, calls, ticks, result, lock, inflight, cap,
                   frame_queue, output_queue, capture_thread, processing_thread,
                   grabbed>>

\* Lines 682-685: join(timeout=2) of the two threads returns when the thread
\* has exited or when the two seconds are over, whichever comes first.
StopJoin ==
    /\ request.pc = "join"
    /\ request' = [request EXCEPT !.pc = "release"]
    /\ UNCHANGED <<face_loop, tracker_vars, now, calls, ticks, result, lock, inflight, stop_flag,
                   is_streaming, cap, frame_queue, output_queue, capture_thread,
                   processing_thread, grabbed>>

\* Lines 687-691: the capture is released and both queues are emptied.  After
\* it remove_processor deletes the processor (line 856), start_stream goes on.
StopRelease ==
    /\ request.pc = "release"
    /\ cap' = "none"
    /\ frame_queue' = <<>>
    /\ output_queue' = <<>>
    /\ request' = IF request.op = "stop_stream"
                  THEN [op |-> "removed", pc |-> "idle"]
                  ELSE [request EXCEPT !.pc = "start"]
    /\ UNCHANGED <<face_loop, tracker_vars, now, calls, ticks, result, lock, inflight, stop_flag,
                   is_streaming, capture_thread, processing_thread, grabbed>>

\* Lines 655-675 of start_stream, for a source that opens: the stop flag is
\* cleared, the capture opened, and a new thread of each kind started.
StartThreads ==
    /\ request.pc = "start"
    /\ stop_flag' = FALSE
    /\ cap' = "open"
    /\ is_streaming' = TRUE
    /\ \E g \in Starts :
          /\ capture_thread[g].pc = "unborn"
          /\ \A h \in Starts : h < g => capture_thread[h].pc # "unborn"
          /\ capture_thread' = [capture_thread EXCEPT ![g].pc = "loop"]
          /\ processing_thread' = [processing_thread EXCEPT ![g].pc = "loop"]
    /\ request' = [op |-> "idle", pc |-> "idle"]
    /\ UNCHANGED <<face_loop, tracker_vars, now, calls, ticks, result, lock, inflight, frame_queue,
                   output_queue, grabbed>>

\* Line 712 of _capture_frames: the loop condition.  (The sleep of lines
\* 713-718 leads back to it.)
CaptureLoop(g) ==
    /\ capture_thread[g].pc = "loop"
    /\ capture_thread' = [capture_thread EXCEPT ![g].pc =
                             IF stop_flag \/ cap # "open" THEN "exit" ELSE "grab"]
    /\ UNCHANGED <<face_loop, tracker_vars, now, calls, ticks, result, lock, inflight, stop_flag,
                   is_streaming, cap, frame_queue, output_queue, processing_thread,
                   request, grabbed>>

\* Lines 721-730: self.cap.grab() and retrieve().  On a capture that
\* stop_stream has set to None the call raises AttributeError and the thread
\* exits (lines 741-744); a source that has no frame left fails to grab.
CaptureGrab(g, max_frames) ==
    /\ capture_thread[g].pc = "grab"
    /\ IF cap # "open"
       THEN /\ capture_thread' = [capture_thread EXCEPT ![g].pc = "exit"]
            /\ UNCHANGED grabbed
       ELSE IF grabbed < max_frames
       THEN /\ capture_thread' = [capture_thread EXCEPT
                                    ![g] = [pc |-> "put", frame |-> grabbed + 1]]
            /\ grabbed' = grabbed + 1
       ELSE /\ capture_thread' = [capture_thread EXCEPT ![g].pc = "loop"]
            /\ UNCHANGED grabbed
    /\ UNCHANGED <<face_loop, tracker_vars, now, calls, ticks, result, lock, inflight, stop_flag,
                   is_streaming, cap, frame_queue, output_queue, processing_thread,
                   request>>

\* Lines 731-740: the frame is put on the queue, or dropped when it is full.
CapturePut(g) ==
    /\ capture_thread[g].pc = "put"
    /\ frame_queue' = put_nowait(frame_queue, frame_queue_maxsize,
                                 capture_thread[g].frame)
    /\ capture_thread' = [capture_thread EXCEPT ![g] = [pc |-> "loop", frame |-> 0]]
    /\ UNCHANGED <<face_loop, tracker_vars, now, calls, ticks, result, lock, inflight, stop_flag,
                   is_streaming, cap, output_queue, processing_thread, request,
                   grabbed>>

\* Line 748 of _process_frames: the loop condition.
ProcessLoop(g) ==
    /\ processing_thread[g].pc = "loop"
    /\ processing_thread' = [processing_thread EXCEPT
                               ![g].pc = IF stop_flag THEN "exit" ELSE "get",
                               ![g].observed = @ \/ stop_flag]
    /\ UNCHANGED <<face_loop, tracker_vars, now, calls, ticks, result, lock, inflight, stop_flag,
                   is_streaming, cap, frame_queue, output_queue, capture_thread,
                   request, grabbed>>

\* Lines 749-779: frame_queue.get(timeout=0.1) takes the oldest frame, or
\* raises queue.Empty after the timeout; the detector runs on the frame.
ProcessGet(g) ==
    /\ processing_thread[g].pc = "get"
    /\ IF Len(frame_queue) > 0
       THEN /\ processing_thread' = [processing_thread EXCEPT
                                       ![g].pc = "face", ![g].item = Head(frame_queue)]
            /\ frame_queue' = Tail(frame_queue)
       ELSE /\ processing_thread' = [processing_thread EXCEPT ![g].pc = "loop"]
            /\ UNCHANGED frame_queue
    /\ UNCHANGED <<face_loop, tracker_vars, now, calls, ticks, result, lock, inflight, stop_flag,
                   is_streaming, cap, output_queue, capture_thread, request, grabbed>>

\* Lines 780-782: the stop flag is read before the face is handed over.
ProcessFaceGate(g) ==
    /\ processing_thread[g].pc = "face"
    /\ processing_thread' = [processing_thread EXCEPT
                               ![g].pc = IF stop_flag THEN "put" ELSE "call",
                               ![g].observed = @ \/ stop_flag]
    /\ UNCHANGED <<face_loop, tracker_vars, now, calls, ticks, result, lock, inflight, stop_flag,
                   is_streaming, cap, frame_queue, output_queue, capture_thread,
                   request, grabbed>>

\* Lines 801-812: the call of process_face.  An exception of the call is
\* caught at line 823 and the frame is given up.
ProcessCall(g) ==
    /\ processing_thread[g].pc = "call"
    /\ \E o \in {FrameFace(processing_thread[g].item)} :
         \E found \in index_search(index, Normalize(o.emb), Min(10, Len(index))) :
           \E r \in {process_face(Self, o.emb, o.bbox, o.stream, now, found)} :
              /\ Commit(r.t)
              /\ result' = r.res
              /\ processing_thread' = [processing_thread EXCEPT ![g].pc =
                                          IF r.res.raised = "none" THEN "put" ELSE "loop"]
    /\ calls' = calls + 1
    /\ UNCHANGED <<face_loop, now, ticks, lock, inflight, stop_flag, is_streaming, cap,
                   frame_queue, output_queue, capture_thread, request, grabbed>>

\* Lines 814-821: the annotated frame is put on the output queue unless the
\* stop flag is set; it is dropped when the queue is full.
ProcessPut(g) ==
    /\ processing_thread[g].pc = "put"
    /\ output_queue' = IF stop_flag THEN output_queue
                       ELSE put_nowait(output_queue, output_queue_maxsize,
                                       processing_thread[g].item)
    /\ processing_thread' = [processing_thread EXCEPT
                               ![g].pc = "loop", ![g].item = 0,
                               ![g].observed = @ \/ stop_flag]
    /\ UNCHANGED <<face_loop, tracker_vars, now, calls, ticks, result, lock, inflight, stop_flag,
                   is_streaming, cap, frame_queue, capture_thread, request, grabbed>>

\* Lines 834-839 called from the generator of video_feed (lines 895-896):
\* the renderer takes the oldest annotated frame.
GetFrame ==
    /\ is_streaming
    /\ Len(output_queue) > 0
    /\ output_queue' = Tail(output_queue)
    /\ UNCHANGED <<face_loop, tracker_vars, now, calls, ticks, result, lock, inflight, stop_flag,
                   is_streaming, cap, frame_queue, capture_thread, processing_thread,
                   request, grabbed>>

\* ------------------------------------------ the faces of one frame (775-812)
max_faces_per_frame == 30

\* One detection of face_app.get: its score, embedding and bbox.
Det(det_score, embedding, bbox) == [det_score |-> det_score, embedding |-> embedding, bbox |-> bbox]

\* What the detector may return for a frame of stream "s1": two persons side
\* by side; two persons far apart, the weaker detection first; one person
\* detected twice at the same place together with a detection below the gate.
Frames ==
    {<<Det(900, EmbA, BoxNear), Det(800, EmbQ, BoxBeside)>>,
     <<Det(700, EmbQ, BoxFar), Det(900, EmbA, BoxNear)>>,
     <<Det(900, EmbA, BoxNear), Det(850, EmbP, BoxNear), Det(400, EmbQ, BoxFar)>>}

\* Line 776: sorted(faces, key=det_score, reverse=True), a stable sort.
RECURSIVE SortByScore(_)
SortByScore(faces) ==
    IF faces = <<>> THEN <<>>
    ELSE LET i == CHOOSE k \in 1..Len(faces) :
                     /\ \A j \in 1..Len(faces) : faces[j].det_score <= faces[k].det_score
                     /\ \A j \in 1..(k - 1) : faces[j].det_score < faces[k].det_score
         IN  <<faces[i]>> \o SortByScore(SubSeq(faces, 1, i - 1) \o SubSeq(faces, i + 1, Len(faces)))

\* Lines 792-796: the bbox overlaps one of the faces already drawn.
Overlap(bbox, processed_faces) ==
    \E k \in 1..Len(processed_faces) : IouGreater(bbox, processed_faces[k], 3, 10)

\* Lines 759-779: the detector has run on a frame; the detections are sorted
\* by score and cut to max_faces_per_frame.
DetectFaces(frames, max_frames) ==
    /\ face_loop.pc = "idle"
    /\ face_loop.frames < max_frames
    /\ \E faces \in frames :
          face_loop' = [pc |-> "faces",
                        faces |-> SubSeq(SortByScore(faces), 1, Min(Len(faces), max_faces_per_frame)),
                        processed_faces |-> <<>>,
                        assigned |-> <<>>,
                        frames |-> face_loop.frames + 1]
    /\ UNCHANGED <<tracker_vars, now, calls, ticks, result, lock, inflight, stop_flag,
                   is_streaming, cap, frame_queue, output_queue, capture_thread,
                   processing_thread, request, grabbed>>

\* Lines 780-812: one turn of the loop over the faces.  The loop ends when
\* the stop flag is set; a detection below the score gate or overlapping a
\* face already drawn is passed over; otherwise process_face is called and a
\* face that was given an identity is drawn.  An exception of the call is
\* caught at line 823 and the frame is given up.
VisitFace(stream_id) ==
    /\ face_loop.pc = "faces"
    /\ face_loop.faces # <<>>
    /\ \E face \in {Head(face_loop.faces)} :
          IF stop_flag
          THEN /\ face_loop' = [face_loop EXCEPT !.faces = <<>>]
               /\ UNCHANGED <<tracker_vars, calls, result>>
          ELSE IF face.det_score < 500 \/ Overlap(face.bbox, face_loop.processed_faces)
          THEN /\ face_loop' = [face_loop EXCEPT !.faces = Tail(@)]
               /\ UNCHANGED <<tracker_vars, calls, result>>
          ELSE \E found \in index_search(index, Normalize(face.embedding), Min(10, Len(index))) :
                 \E r \in {process_face(Self, face.embedding, face.bbox, stream_id, now, found)} :
                    /\ Commit(r.t)
                    /\ result' = r.res
                    /\ calls' = calls + 1
                    /\ face_loop' =
                          IF r.res.raised # "none"
                          THEN [NoFrame EXCEPT !.frames = face_loop.frames]
                          ELSE IF r.res.assigned_id # NoneId
                          THEN [face_loop EXCEPT
                                  !.faces = Tail(@),
                                  !.processed_faces = Append(@, r.res.bbox),
                                  !.assigned = Append(@, <<face, r.res.assigned_id>>)]
                          ELSE [face_loop EXCEPT !.faces = Tail(@)]
    /\ UNCHANGED <<now, ticks, lock, inflight, stop_flag, is_streaming, cap, frame_queue,
                   output_queue, capture_thread, processing_thread, request, grabbed>>

\* Lines 814-821: the faces of the frame are done; the annotated frame is
\* put on the output queue unless the stop flag is set.
EndFrame ==
    /\ face_loop.pc = "faces"
    /\ face_loop.faces = <<>>
    /\ output_queue' = IF stop_flag THEN output_queue
                       ELSE put_nowait(output_queue, output_queue_maxsize, face_loop.frames)
    /\ face_loop' = [NoFrame EXCEPT !.frames = face_loop.frames]
    /\ UNCHANGED <<tracker_vars, now, calls, ticks, result, lock, inflight, stop_flag,
                   is_streaming, cap, frame_queue, capture_thread, processing_thread,
                   request, grabbed>>

NextFrame == DetectFaces(Frames, MaxFramePasses) \/ VisitFace("s1") \/ EndFrame

SpecFrame == Init /\ [][NextFrame]_vars

CaptureStep(g, max_frames) ==
    CaptureLoop(g) \/ CaptureGrab(g, max_frames) \/ CapturePut(g)

ProcessStep(g) ==
    ProcessLoop(g) \/ ProcessGet(g) \/ ProcessFaceGate(g) \/ ProcessCall(g)
        \/ ProcessPut(g)

RequestStep(starts) ==
    RequestStart(starts) \/ RequestStop \/ StopSetFlag \/ StopJoin \/ StopRelease
        \/ StartThreads

\* One start of the stream from a source of MaxFrames frames, the renderer,
\* and the stop of the stream.
NextStream ==
    \/ RequestStep(1)
    \/ CaptureStep(1, MaxFrames)
    \/ ProcessStep(1)
    \/ GetFrame

SpecStream == Init /\ [][NextStream]_vars

\* A stream that is started again while it runs, from a short source.
NextRestart ==
    \/ RequestStep(MaxStarts)
    \/ \E g \in Starts : CaptureStep(g, MaxRestartFrames)
    \/ \E g \in Starts : ProcessStep(g)
    \/ GetFrame

SpecRestart == Init /\ [][NextRestart]_vars

\* The threads are scheduled fairly: a thread that can take a step takes one.
FairSpecRestart ==
    /\ SpecRestart
    /\ \A g \in Starts :
          WF_vars(CaptureStep(g, MaxRestartFrames)) /\ WF_vars(ProcessStep(g))

\* ------------------------------------------------------------- properties
\* A step of process_face, and the rules it fired.
IsCall == calls' = calls + 1

Fired(rule) == \E i \in 1..Len(result'.rules) : result'.rules[i] = rule

Emb(id) == DGet(id2emb, id, <<0, 0>>)

\* C1: in every state the ids held in the vector index are the keys of
\* id2emb, with one index entry per id.
C1_IndexMatchesRegistry ==
    /\ DKeySet(index) = DKeySet(id2emb)
    /\ Len(index) = Cardinality(DKeySet(index))

\* A call has just rebuilt the index, and one of the two identities created
\* since the start is no longer in it.
C1_Witness ==
    /\ result.op = "process_face"
    /\ next_id = rebuild_interval
    /\ faces_since_rebuild = 0
    /\ Len(index) = 1
    /\ Len(result.created) = 1

\* C2: a promotion of a pending track creates no identity whose embedding has
\* cosine 0.80 or more with the embedding of an identity that was active
\* before the call.
C2_PromotionCreatesNoDuplicate ==
    [][(IsCall /\ Fired("E_promote")) =>
          \A i \in DKeySet(id2emb) :
             cosine_similarity(Emb(i), DGet(id2emb', result'.created[1], <<0, 0>>))
                 < immediate_merge_threshold]_vars

\* C3: on an empty registry the first call with a face of the minimum size
\* creates no identity and returns None; the observation is only staged as a
\* pending track.
C3_FirstSightingIsStaged ==
    (calls = 1 /\ result.op = "process_face" /\ result.rules # <<"A_size">>)
        => /\ result.assigned_id = NoneId
           /\ next_id = 0
           /\ pending_tracks # EmptyDict

\* C4: a call returns an identity that was last seen more than
\* reuse_time_window_s before only if a re-link probation record of that
\* identity has lasted relink_duration_s.
C4_IdleIdentityNeedsProbation ==
    [][(/\ IsCall
        /\ result'.assigned_id \in DKeySet(id2emb)
        /\ now - DGet(id2last_seen, result'.assigned_id, 0) > reuse_time_window_s)
       => /\ result'.assigned_id \in DOMAIN relink_tracks
          /\ now - relink_tracks[result'.assigned_id].start_ts >= relink_duration_s]_vars

\* C5: the suspicious flag of an identity, once true, is true for as long as
\* the identity exists.
C5_SuspiciousIsSticky ==
    [][\A i \in DKeySet(id2emb) \cap DKeySet(id2emb') :
          Get(id_suspicious_status, i, FALSE) => Get(id_suspicious_status', i, FALSE)]_vars

\* C6: the checked flag of an identity stays true, a call runs the watchlist
\* check only for a key whose checked flag is not yet true, and a watchlist
\* reload changes no checked flag, suspicious flag or match record.
C6_ClassifiedAtMostOnce ==
    [][/\ \A i \in DKeySet(id2emb) \cap DKeySet(id2emb') :
             Get(id_checked_in_db, i, FALSE) => Get(id_checked_in_db', i, FALSE)
       /\ IsCall => \A a \in result'.classified : ~Get(id_checked_in_db, a, FALSE)
       /\ stored_embeddings' # stored_embeddings =>
             UNCHANGED <<id_checked_in_db, id_suspicious_status, suspicious_map>>]_vars

\* A call has returned, without a watchlist check, a clean identity whose
\* embedding matches the watchlist loaded after its check.
C6_Witness ==
    /\ result.op = "process_face"
    /\ result.raised = "none"
    /\ result.classified = {}
    /\ result.assigned_id \in DKeySet(id2emb)
    /\ Get(id_checked_in_db, result.assigned_id, FALSE)
    /\ ~Get(id_suspicious_status, result.assigned_id, FALSE)
    /\ Len(stored_embeddings) > 0
    /\ cosine_similarity(Emb(result.assigned_id), stored_embeddings[1]) > threshold

\* C7: next_id never decreases, it grows by the number of identities a step
\* creates, and the ids created are the ones from the old next_id on, none of
\* which was assigned before.
C7_IdsAreFresh ==
    [][/\ next_id' >= next_id
       /\ lifetime_ids' = lifetime_ids \cup (next_id..(next_id' - 1))
       /\ \A i \in lifetime_ids : i < next_id
       /\ (DKeySet(id2emb') \ DKeySet(id2emb)) \subseteq (next_id..(next_id' - 1))]_vars

\* A call has created an identity after an identity with a lower id was
\* removed.
C7_Witness ==
    /\ result.op = "process_face"
    /\ Len(result.created) > 0
    /\ next_id < rebuild_interval - 2
    /\ \E i \in lifetime_ids : i \notin DKeySet(id2emb) /\ i < result.created[1]

\* C8: no call of process_face raises.
C8_ProcessFaceNeverRaises ==
    result.op = "process_face" => result.raised = "none"

\* C9: a call that reaches the double check with no identity assigned and
\* leaves the re-link probation of the best identity unsatisfied returns None
\* and changes no identity, no index entry and no entry of the last-bbox,
\* last-seen, owning-stream, checked and suspicious maps.
C9_UnresolvedProbationIsLocal ==
    [][(IsCall /\ result'.rules = <<"G_probation">> /\ result'.raised = "none")
       => /\ result'.assigned_id = NoneId
          /\ UNCHANGED <<next_id, id2emb, index, id2last_bbox, id2last_seen, id2stream,
                         id_checked_in_db, id_suspicious_status>>]_vars

\* C10: a call that promotes a pending track creates that one identity and
\* returns it; the double check creates no second identity and does not
\* replace the promoted one.
C10_PromotionIsFinal ==
    [][(IsCall /\ Fired("E_promote") /\ result'.raised = "none")
       => /\ next_id' = next_id + 1
          /\ result'.assigned_id = next_id]_vars

\* C11: an identity returned by process_face is active when the call
\* returns: it is in id2emb and in the index, the returned flag is its stored
\* suspicious flag and the returned bbox is its stored last bbox; also when the
\* periodic consolidation, cleanup or rebuild ran in the call.
C11_ReturnedIdentityIsActive ==
    (result.op = "process_face" /\ result.raised = "none"
        /\ result.assigned_id # NoneId)
    => /\ result.assigned_id \in DKeySet(id2emb)
       /\ result.assigned_id \in DKeySet(index)
       /\ result.assigned_id \in DOMAIN id_suspicious_status
       /\ result.is_suspicious = id_suspicious_status[result.assigned_id]
       /\ result.bbox = DGet(id2last_bbox, result.assigned_id, <<>>)

\* C12: a call with a bbox whose width or height is below min_face_size
\* returns (None, false, bbox) with the bbox it was given and changes nothing
\* of the tracker.
C12_SmallFaceIsIgnored ==
    [][(IsCall /\ (\/ result'.in_bbox[3] - result'.in_bbox[1] < min_face_size
                   \/ result'.in_bbox[4] - result'.in_bbox[2] < min_face_size))
       => /\ result'.raised = "none"
          /\ result'.assigned_id = NoneId
          /\ result'.is_suspicious = FALSE
          /\ result'.bbox = result'.in_bbox
          /\ UNCHANGED tracker_vars]_vars

\* A face too narrow but tall enough was ignored by a tracker that holds an
\* identity and a pending track.
C12_Witness ==
    /\ result.op = "process_face"
    /\ result.in_bbox = BoxSmall
    /\ result.assigned_id = NoneId
    /\ Len(id2emb) > 0
    /\ pending_tracks # EmptyDict

\* Identity id is owned by the stream, was last seen within
\* reuse_time_window_s and has its last bbox centred within reuse_distance_px
\* of c.
ReuseCandidate(id, stream_id, c) ==
    /\ id \in DKeySet(id2emb)
    /\ DHas(id2last_bbox, id)
    /\ Get(id2stream, id, "") = stream_id
    /\ now - DGet(id2last_seen, id, 0) <= reuse_time_window_s
    /\ WithinReuseDistance(c, Center(DGet(id2last_bbox, id, <<0, 0, 0, 0>>)))

\* C13: when an identity of the observing stream was seen within
\* reuse_time_window_s with its last bbox centred within reuse_distance_px of
\* the observation, the call returns an identity in that situation and
\* creates no identity, whatever the similarity.
C13_NearbyRecentIdentityIsReused ==
    [][(/\ IsCall
        /\ result'.rules # <<"A_size">>
        /\ \E i \in DKeySet(id2emb) :
              ReuseCandidate(i, result'.stream_id, Center(result'.in_bbox)))
       => /\ ReuseCandidate(result'.assigned_id, result'.stream_id,
                            Center(result'.in_bbox))
          /\ next_id' = next_id]_vars

\* Identity id is the best match of q: no identity has a larger cosine with
\* q, and the cosine is immediate_merge_threshold or more.
BestMatch(id, q) ==
    /\ id \in DKeySet(id2emb)
    /\ cosine_similarity(q, Emb(id)) >= immediate_merge_threshold
    /\ \A k \in DKeySet(id2emb) :
          cosine_similarity(q, Emb(k)) <= cosine_similarity(q, Emb(id))

\* C14: an observation whose best match, of cosine 0.80 or more, is an
\* identity owned by another stream, and that no identity of its own stream
\* claims by the spatial-temporal reuse, is assigned that identity by the same
\* call; no identity is created and the identity is owned by the observing
\* stream afterwards.
C14_CrossStreamMatchIsImmediate ==
    [][(/\ IsCall
        /\ result'.rules # <<"A_size">>
        /\ result'.raised = "none"
        /\ \E i \in DOMAIN id2stream :
              /\ BestMatch(i, result'.query_emb)
              /\ id2stream[i] # result'.stream_id
        /\ \A k \in DKeySet(id2last_bbox) :
              ~(/\ Get(id2stream, k, "") = result'.stream_id
                /\ now - DGet(id2last_seen, k, 0) <= reuse_time_window_s
                /\ WithinReuseDistance(Center(result'.in_bbox),
                                       Center(DGet(id2last_bbox, k, <<0, 0, 0, 0>>)))))
       => /\ BestMatch(result'.assigned_id, result'.query_emb)
          /\ next_id' = next_id
          /\ Get(id2stream', result'.assigned_id, "") = result'.stream_id]_vars

\* C15: after cleanup_old_faces has completed at time now, every key left in
\* the index or in a registry map is an identity with a last_seen entry and
\* now - last_seen <= face_timeout.
C15_CleanupLeavesOnlyFresh ==
    (result.op = "cleanup_old_faces" /\ result.raised = "none")
    => \A i \in DKeySet(id2emb) \cup DKeySet(index) \cup DKeySet(id2last_bbox)
                \cup DKeySet(id2last_seen) \cup DOMAIN id2stream
                \cup DOMAIN id_checked_in_db \cup DOMAIN id_suspicious_status
                \cup DOMAIN suspicious_map :
          /\ DHas(id2last_seen, i)
          /\ result.at - DGet(id2last_seen, i, 0) <= face_timeout

\* The embedding e blended with the embeddings of the identities of G, in
\* ascending order of id, each with weight 0.3.
RECURSIVE BlendInOrder(_, _)
BlendInOrder(e, G) ==
    IF G = {} THEN e
    ELSE LET m == CHOOSE x \in G : \A y \in G : x <= y
         IN  BlendInOrder(Blend(e, Emb(m), 300), G \ {m})

\* The key is in none of the per-identity maps of the next state, nor in the
\* index.
GoneNext(id) ==
    /\ id \notin DKeySet(index') \cup DKeySet(id2emb') \cup DKeySet(id2last_bbox')
    /\ id \notin DKeySet(id2last_seen') \cup DOMAIN id2stream'
    /\ id \notin DOMAIN id_checked_in_db' \cup DOMAIN id_suspicious_status'
    /\ id \notin DOMAIN suspicious_map'

\* C16: a consolidation that merges identities removes every merged identity
\* from the index and from every per-identity map, keeps of each group the
\* lowest id, gives it the embedding blended in order with the removed ones
\* (0.7 of the survivor, 0.3 of the other, normalised, one after the other),
\* and leaves it suspicious exactly when it or one of the removed ones was.
C16_MergeKeepsLowestId ==
    [][(result'.op = "consolidate_duplicate_ids" /\ id2emb' # id2emb)
       => \E grp \in [DKeySet(id2emb) \ DKeySet(id2emb') -> DKeySet(id2emb')] :
             /\ DKeySet(id2emb') \subseteq DKeySet(id2emb)
             /\ \A j \in DOMAIN grp : grp[j] < j /\ GoneNext(j)
             /\ \A i \in DKeySet(id2emb') :
                   /\ DGet(id2emb', i, <<>>)
                          = BlendInOrder(Emb(i), {j \in DOMAIN grp : grp[j] = i})
                   /\ DGet(index', i, <<>>) = DGet(id2emb', i, <<>>)
                   /\ Get(id_suspicious_status', i, FALSE)
                          = (\E k \in {i} \cup {j \in DOMAIN grp : grp[j] = i} :
                                Get(id_suspicious_status, k, FALSE))]_vars

\* A consolidation has left suspicious an identity that no watchlist check
\* found suspicious: it took the flag from an identity merged into it.
C16_Witness ==
    /\ result.op = "consolidate_duplicate_ids"
    /\ \E i \in DKeySet(id2emb) :
          /\ Get(id_suspicious_status, i, FALSE)
          /\ i \in DOMAIN suspicious_map
          /\ i \notin lifetime_suspicious_ids

\* The co-activity condition of a pair: the last bboxes overlap with IoU
\* immediate_merge_iou or more, or the cosine is immediate_merge_threshold or
\* more and the two were last seen within immediate_merge_time_window.
CoActive(i, j) ==
    \/ /\ DHas(id2last_bbox, i)
       /\ DHas(id2last_bbox, j)
       /\ IouAtLeast(DGet(id2last_bbox, i, <<>>), DGet(id2last_bbox, j, <<>>),
                     immediate_merge_iou, Scale)
    \/ /\ cosine_similarity(Emb(i), Emb(j)) >= immediate_merge_threshold
       /\ Abs(DGet(id2last_seen, i, 0) - DGet(id2last_seen, j, 0))
              <= immediate_merge_time_window

\* C17: after a consolidation every pair of remaining identities has, on the
\* embeddings the consolidation left, a cosine below consolidation_threshold
\* or fails the co-activity condition.
C17_NoMergeablePairLeft ==
    (result.op = "consolidate_duplicate_ids")
    => \A i, j \in DKeySet(id2emb) :
          i < j => \/ cosine_similarity(Emb(i), Emb(j)) < consolidation_threshold
                   \/ ~CoActive(i, j)

\* C18: the registry never holds more identities than its capacity; a call
\* made while it holds that many creates no identity, returns no identity
\* that was not in the registry, and returns (None, false, bbox) with the
\* bbox it was given when it reaches a creation site.
C18_RegistryIsBounded ==
    [][/\ Len(id2emb') <= SmallCapacity
       /\ (IsCall /\ Len(id2emb) >= SmallCapacity)
          => /\ next_id' = next_id
             /\ DKeySet(id2emb') \subseteq DKeySet(id2emb)
             /\ result'.assigned_id # NoneId
                   => result'.assigned_id \in DKeySet(id2emb)
             /\ (Fired("E_capacity") \/ Fired("G_capacity"))
                   => /\ result'.assigned_id = NoneId
                      /\ result'.is_suspicious = FALSE
                      /\ result'.bbox = result'.in_bbox
                      /\ result'.raised = "none"]_vars

\* A call on a full registry found no identity to reuse and returned None.
C18_Witness ==
    /\ result.op = "process_face"
    /\ Len(id2emb) = SmallCapacity
    /\ result.assigned_id = NoneId
    /\ \E i \in 1..Len(result.rules) : result.rules[i] = "G_capacity"

\* C19: every change of the registry, the index, the pending and re-link
\* maps, the match map, the lifetime sets and next_id is a step of the
\* operation whose thread holds the lock; while an operation is under way no
\* other operation changes any of them; and a process_face call made in steps
\* leaves the tracker and returns what the call made in one piece does from
\* the state it started in.
C19_MutationsHoldTheLock ==
    [][/\ ~(UNCHANGED registry_vars)
          => /\ lock \in Threads
             /\ inflight[lock] # Idle
             /\ inflight'[lock] # inflight[lock]
       /\ \A th \in Threads :
             (inflight[th] # Idle /\ inflight'[th] = inflight[th])
                => UNCHANGED registry_vars
       /\ \A th \in Threads :
             (inflight[th].op = "process_face" /\ inflight'[th] = Idle)
                => \E r \in {process_face(inflight[th].start, inflight[th].obs.emb,
                                          inflight[th].obs.bbox,
                                          inflight[th].obs.stream, now,
                                          inflight[th].found)} :
                      /\ Self' = r.t
                      /\ result' = r.res]_vars

\* A call of one stream has assigned an identity and not yet returned, while
\* the registry holds two identities that a consolidation would merge.
C19_Witness ==
    /\ lock = "s1"
    /\ inflight["s1"].op = "process_face"
    /\ inflight["s1"].phase = "assigned"
    /\ Len(id2emb) >= 2
    /\ consolidate_duplicate_ids(Self) # Self

\* C20: a watchlist check made by process_face while a reload is under way
\* reads the complete watchlist of before the reload or the complete new one,
\* matrix and metadata of the same version and length.
C20_ReloadIsAtomicToReaders ==
    [][(/\ IsCall
        /\ result'.classified # {}
        /\ inflight["reload"].op = "load_embeddings_from_db")
       => \/ /\ stored_embeddings = inflight["reload"].old_embeddings
             /\ stored_labels = inflight["reload"].old_labels
          \/ /\ stored_embeddings = inflight["reload"].rows
             /\ Len(stored_labels) = Len(inflight["reload"].rows)]_vars

\* C21: the capture -> process queue never holds more than 5 frames and the
\* process -> render queue never more than 2; a producer that finds its queue
\* full drops the new frame and leaves the queue as it was, one that finds
\* room appends the frame at the tail; and the producer is never made to
\* wait: its put is a step it can always take.
C21_FullQueueDropsNewest ==
    [][/\ Len(frame_queue') <= frame_queue_maxsize
       /\ Len(output_queue') <= output_queue_maxsize
       /\ \A g \in Starts :
             /\ capture_thread[g].pc = "put" => ENABLED CapturePut(g)
             /\ processing_thread[g].pc = "put" => ENABLED ProcessPut(g)
             /\ (capture_thread[g].pc = "put" /\ capture_thread'[g].pc # "put")
                   => frame_queue' = IF Len(frame_queue) = frame_queue_maxsize
                                     THEN frame_queue
                                     ELSE Append(frame_queue, capture_thread[g].frame)
             /\ (/\ processing_thread[g].pc = "put"
                 /\ processing_thread'[g].pc # "put"
                 /\ ~stop_flag)
                   => output_queue' = IF Len(output_queue) = output_queue_maxsize
                                      THEN output_queue
                                      ELSE Append(output_queue,
                                                  processing_thread[g].item)]_vars

\* The capture thread has dropped the sixth frame on a full queue, and the
\* five frames before it are queued in the order they were captured.
C21_Witness ==
    /\ grabbed = 6
    /\ capture_thread[1].pc = "loop"
    /\ frame_queue = <<1, 2, 3, 4, 5>>
    /\ processing_thread[1].item = 0

\* The thread of a start is running: started and not yet out of its loop.
Running(thread) == thread.pc \notin {"unborn", "exit"}

\* C22: once the stop flag is set, every running capture thread and every
\* running processing thread eventually exits, a process_face call that is
\* under way is completed, and a processing thread that has read the flag as
\* set takes no further frame from the capture queue.
C22_StopEndsBothThreads ==
    /\ \A g \in Starts :
          /\ (stop_flag /\ Running(capture_thread[g]))
                ~> (capture_thread[g].pc = "exit")
          /\ (stop_flag /\ Running(processing_thread[g]))
                ~> (processing_thread[g].pc = "exit")
          /\ (stop_flag /\ processing_thread[g].pc = "call")
                ~> (processing_thread[g].pc # "call")
    /\ [][\A g \in Starts :
             processing_thread[g].observed
                => ~(processing_thread[g].pc = "get"
                     /\ processing_thread'[g].pc = "face")]_vars

\* The re-link probation record of the identity is older than
\* pending_timeout_s: it has expired.
ExpiredProbation(id) ==
    /\ id \in DOMAIN relink_tracks
    /\ now - relink_tracks[id].last_ts > pending_timeout_s

\* C23: a call made more than pending_timeout_s after the last hit of a
\* re-link probation record does not assign the candidate by a re-link on the
\* strength of that record; if the call hits the candidate, the record it
\* leaves is a new probation that starts at the time of the call.
C23_ExpiredProbationStartsAnew ==
    [][IsCall =>
          \A id \in DOMAIN relink_tracks :
             ExpiredProbation(id)
                => /\ ~(/\ result'.assigned_id = id
                        /\ (Fired("D") \/ Fired("G_relink")))
                   /\ (id \in DOMAIN relink_tracks' /\ relink_tracks'[id].last_ts = now)
                         => relink_tracks'[id].start_ts = now]_vars

\* C24: a call that stages its observation in a cell whose pending track was
\* last updated more than pending_timeout_s before leaves there a fresh track
\* of count 1 that starts at the time of the call, and does not promote.
C24_ExpiredPendingStartsAnew ==
    [][(IsCall /\ result'.rules # <<"A_size">>) =>
          \A key \in DOMAIN pending_tracks :
             (/\ key = CellKey(result'.stream_id, Center(result'.in_bbox))
              /\ now - pending_tracks[key].last_ts > pending_timeout_s
              /\ \/ key \notin DOMAIN pending_tracks'
                 \/ pending_tracks'[key] # pending_tracks[key])
                => /\ ~Fired("E_promote")
                   /\ key \in DOMAIN pending_tracks'
                         => /\ pending_tracks'[key].count = 1
                            /\ pending_tracks'[key].first_ts = now]_vars

\* The embedding has unit length, to the precision of the fixed-point
\* numbers: its squared norm is within 2 / Scale of 1.
UnitNorm(e) == Abs(Dot(e, e) - Scale * Scale) <= 2 * Scale

UpdateSims(id, q) ==
    {Scale, 800, 600, cosine_similarity(q, Emb(id)), InnerProduct(q, Emb(id))}

\* C26: a call that returns an identity that existed before the call, and
\* runs no periodic maintenance, leaves that identity with the embedding
\* normalize((1 - w) * old + w * observation), w = min(0.5, 0.3 * sim), and
\* with an index entry of the same embedding, whichever step assigned it.
C26_ReuseUpdatesEmbedding ==
    [][(/\ IsCall
        /\ result'.raised = "none"
        /\ result'.created = <<>>
        /\ result'.ran = <<>>
        /\ result'.assigned_id \in DKeySet(id2emb))
       => \E sim \in UpdateSims(result'.assigned_id, result'.query_emb) :
             /\ DGet(id2emb', result'.assigned_id, <<>>)
                   = Blend(Emb(result'.assigned_id), result'.query_emb,
                           Min(500, RDiv(sim * 300, Scale)))
             /\ DGet(index', result'.assigned_id, <<>>)
                   = DGet(id2emb', result'.assigned_id, <<>>)]_vars

\* The coordinate r is 0.3 * obs + 0.7 * last rounded to the nearest integer
\* (either neighbour when the value lies half way).
IsRounded(r, obs, last) == Abs(10 * r - (3 * obs + 7 * last)) <= 5

\* C27: a call that returns an identity returns, and stores as the last bbox
\* of the identity, the observed bbox when the identity had no last bbox, and
\* otherwise per coordinate 0.3 * observed + 0.7 * last rounded to the nearest
\* integer.
C27_BBoxIsSmoothedAndRounded ==
    [][(IsCall /\ result'.raised = "none" /\ result'.assigned_id # NoneId)
       => /\ IF DHas(id2last_bbox, result'.assigned_id)
             THEN \A k \in 1..4 :
                     IsRounded(result'.bbox[k], result'.in_bbox[k],
                               DGet(id2last_bbox, result'.assigned_id, <<>>)[k])
             ELSE result'.bbox = result'.in_bbox
          /\ DHas(id2last_bbox', result'.assigned_id)
                => DGet(id2last_bbox', result'.assigned_id, <<>>) = result'.bbox]_vars

\* The call ran the periodic consolidation of line 450: the consolidation of
\* the rebuild comes after a cleanup, the periodic one before any.
PeriodicRan == Len(result'.ran) > 0 /\ result'.ran[1] = "consolidate"

\* The new-identity counter as the creations of the call left it, before the
\* rebuild reset it.
CounterAfterCreations == faces_since_rebuild + Len(result'.created)

\* C28: a process_face call runs the periodic consolidation only when it
\* created an identity and the creation brought faces_since_rebuild to a
\* positive multiple of consolidation_check_interval; a call that creates
\* nothing, or whose counter is 0, runs none.
C28_PeriodicConsolidationPerInterval ==
    [][(IsCall /\ PeriodicRan)
       => /\ result'.created # <<>>
          /\ CounterAfterCreations > 0
          /\ CounterAfterCreations % consolidation_check_interval = 0]_vars

\* The last three maintenance steps of the call are the cleanup, the
\* consolidation and the rebuild, in this order.
RanRebuild ==
    LET n == Len(result'.ran)
    IN  /\ n >= 3
        /\ SubSeq(result'.ran, n - 2, n) = <<"cleanup", "consolidate", "rebuild">>

\* C29: a process_face call in which faces_since_rebuild reaches
\* rebuild_interval runs the cleanup, then the consolidation, then rebuilds
\* the index from id2emb and resets the counter to 0, so that every call ends
\* with faces_since_rebuild below rebuild_interval.
C29_RebuildAtInterval ==
    [][IsCall
       => /\ faces_since_rebuild' < rebuild_interval
          /\ CounterAfterCreations >= rebuild_interval
                => /\ RanRebuild
                   /\ index' = id2emb'
                   /\ faces_since_rebuild' = 0]_vars

\* Identity id is owned by the stream, was last seen within
\* reuse_time_window_s, and its last bbox overlaps bbox with IoU above 0.2 or
\* is centred within reuse_distance_px of the centre of bbox.
NearbyRecent(id, stream_id, bbox) ==
    /\ id \in DKeySet(id2emb)
    /\ DHas(id2last_bbox, id)
    /\ Get(id2stream, id, "") = stream_id
    /\ now - DGet(id2last_seen, id, 0) <= reuse_time_window_s
    /\ \/ IouGreater(bbox, DGet(id2last_bbox, id, <<0, 0, 0, 0>>), 2, 10)
       \/ WithinReuseDistance(Center(bbox),
                              Center(DGet(id2last_bbox, id, <<0, 0, 0, 0>>)))

\* C30: while an identity of the observing stream, seen within
\* reuse_time_window_s, overlaps the observation with IoU above 0.2 or lies
\* within reuse_distance_px of it, a process_face call creates no identity:
\* it returns such an identity, or it returns (None, False, bbox).
C30_NoDuplicateNearRecentIdentity ==
    [][(/\ IsCall
        /\ \E i \in DKeySet(id2emb) :
              NearbyRecent(i, result'.stream_id, result'.in_bbox))
       => /\ result'.raised = "none"
          /\ result'.created = <<>>
          /\ next_id' = next_id
          /\ \/ NearbyRecent(result'.assigned_id, result'.stream_id,
                              result'.in_bbox)
             \/ /\ result'.assigned_id = NoneId
                /\ result'.is_suspicious = FALSE
                /\ result'.bbox = result'.in_bbox]_vars

\* C31: a process_face call creates at most one identity: next_id, the number
\* of lifetime ids and faces_since_rebuild grow by at most 1, and an identity
\* the call creates is the one it returns.
C31_AtMostOneCreationPerCall ==
    [][IsCall
       => /\ next_id' <= next_id + 1
          /\ Cardinality(lifetime_ids') <= Cardinality(lifetime_ids) + 1
          /\ faces_since_rebuild' <= faces_since_rebuild + 1
          /\ Len(result'.created) <= 1
          /\ result'.created # <<>>
                => /\ result'.raised = "none"
                   /\ result'.assigned_id = result'.created[1]]_vars

\* C32: between tracker operations the maps of last bboxes, last sightings,
\* owning streams, checked flags and suspicious flags have the keys of id2emb
\* as their keys, no more and no fewer.
C32_MapsShareTheActiveKeys ==
    /\ DKeySet(id2last_bbox) = DKeySet(id2emb)
    /\ DKeySet(id2last_seen) = DKeySet(id2emb)
    /\ DOMAIN id2stream = DKeySet(id2emb)
    /\ DOMAIN id_checked_in_db = DKeySet(id2emb)
    /\ DOMAIN id_suspicious_status = DKeySet(id2emb)

\* C33: of the capture threads the starts of one stream have launched at
\* most one is running at any time, and likewise of its processing threads,
\* a restart of a stream whose threads outlived the join timeout included.
C33_OneThreadPairPerStream ==
    /\ Cardinality({g \in Starts : Running(capture_thread[g])}) <= 1
    /\ Cardinality({g \in Starts : Running(processing_thread[g])}) <= 1

\* C34: of the detections of one frame that passed the score gate and the
\* overlap test, no two were given the same identity by their process_face
\* calls.
C34_FacesOfAFrameGetDistinctIds ==
    \A i, j \in 1..Len(face_loop.assigned) :
       i # j => face_loop.assigned[i][2] # face_loop.assigned[j][2]
====
